---- MODULE Spec2Model ----
(***************************************************************************)
(* A model of astro-post-audit: URL normalization, link resolution, the    *)
(* site index and the whole-site checks that run against it.               *)
(*                                                                         *)
(* Strings are sequences of one-character strings, so that the prefix,     *)
(* suffix, split and trim operations of the code are computed and not      *)
(* assumed.                                                                *)
(***************************************************************************)
EXTENDS Integers, Sequences, FiniteSets, TLC

VARIABLES
    pc,          \* position of the run / of the library call
    call,        \* library call under test: function name and arguments
    ret,         \* results of the library calls; the report a run prints
    dist,        \* the build output directory (files, pages, sitemap.xml)
    config,      \* Config after the CLI overrides
    cli,         \* command line options
    index,       \* the SiteIndex, once built
    findings,    \* Vec<Finding> accumulated by run()
    error_count, \* run()'s error budget counter
    suite,       \* number of the next check suite of run()
    exit_code    \* process exit code, once decided

vars == <<pc, call, ret, dist, config, cli, index, findings, error_count, suite, exit_code>>

None == "None"

----------------------------------------------------------------------------
(* String primitives (Rust str methods used by the code).                  *)

StartsWith(s, p) == Len(p) <= Len(s) /\ SubSeq(s, 1, Len(p)) = p

EndsWith(s, p) == Len(p) <= Len(s) /\ SubSeq(s, Len(s) - Len(p) + 1, Len(s)) = p

Contains(s, p) == \E i \in 1..(Len(s) - Len(p) + 1) : SubSeq(s, i, i + Len(p) - 1) = p

\* index of the first occurrence of pattern p in s, 0 when there is none
Find(s, p) ==
    IF Contains(s, p)
    THEN CHOOSE i \in 1..(Len(s) - Len(p) + 1) :
            /\ SubSeq(s, i, i + Len(p) - 1) = p
            /\ \A j \in 1..(i - 1) : SubSeq(s, j, j + Len(p) - 1) # p
    ELSE 0

\* index of the last occurrence of pattern p in s, 0 when there is none
RFind(s, p) ==
    IF Contains(s, p)
    THEN CHOOSE i \in 1..(Len(s) - Len(p) + 1) :
            /\ SubSeq(s, i, i + Len(p) - 1) = p
            /\ \A j \in (i + 1)..(Len(s) - Len(p) + 1) : SubSeq(s, j, j + Len(p) - 1) # p
    ELSE 0

RECURSIVE TrimEndMatches(_, _)
TrimEndMatches(s, p) ==
    IF Len(p) > 0 /\ EndsWith(s, p)
    THEN TrimEndMatches(SubSeq(s, 1, Len(s) - Len(p)), p)
    ELSE s

RECURSIVE TrimStartMatches(_, _)
TrimStartMatches(s, p) ==
    IF Len(p) > 0 /\ StartsWith(s, p)
    THEN TrimStartMatches(SubSeq(s, Len(p) + 1, Len(s)), p)
    ELSE s

\* str::split(pattern): the pieces between occurrences, empty pieces kept
RECURSIVE Split(_, _)
Split(s, p) ==
    LET i == Find(s, p)
    IN  IF i = 0
        THEN <<s>>
        ELSE <<SubSeq(s, 1, i - 1)>> \o Split(SubSeq(s, i + Len(p), Len(s)), p)

RECURSIVE Join(_, _)
Join(segs, sep) ==
    IF Len(segs) = 0 THEN <<>>
    ELSE IF Len(segs) = 1 THEN segs[1]
    ELSE segs[1] \o sep \o Join(Tail(segs), sep)

\* str::trim
Space == " "

RECURSIVE Trim(_)
Trim(s) ==
    IF Len(s) > 0 /\ s[1] = Space THEN Trim(Tail(s))
    ELSE IF Len(s) > 0 /\ s[Len(s)] = Space THEN Trim(SubSeq(s, 1, Len(s) - 1))
    ELSE s

Slash == <<"/">>
Dot == <<".">>
DotDot == <<".", ".">>
IndexHtmlName == <<"i", "n", "d", "e", "x", ".", "h", "t", "m", "l">>
IndexHtmName == <<"i", "n", "d", "e", "x", ".", "h", "t", "m">>
HtmlExt == <<".", "h", "t", "m", "l">>
HtmExt == <<".", "h", "t", "m">>

----------------------------------------------------------------------------
(* normalize/mod.rs                                                        *)

TrailingSlash == {"Always", "Never", "Ignore"}
IndexHtml == {"Forbid", "Allow"}
UrlNormalizationConfig == [trailing_slash : TrailingSlash, index_html : IndexHtml]

RECURSIVE CollapseSegments(_, _)
CollapseSegments(segs, stack) ==
    IF Len(segs) = 0 THEN stack
    ELSE LET seg == Head(segs)
         IN  IF seg = Dot THEN CollapseSegments(Tail(segs), stack)
             ELSE IF seg = DotDot
                  THEN CollapseSegments(Tail(segs),
                          IF Len(stack) = 0 THEN stack ELSE SubSeq(stack, 1, Len(stack) - 1))
                  ELSE CollapseSegments(Tail(segs), Append(stack, seg))

\* collapse_dots without the leading slash put back
collapse_dots_NoClamp(path) ==
    Join(CollapseSegments(Split(path, Slash), <<>>), Slash)

collapse_dots(path) ==
    LET result == Join(CollapseSegments(Split(path, Slash), <<>>), Slash)
    IN  IF StartsWith(path, Slash) /\ ~StartsWith(result, Slash)
        THEN Slash \o result
        ELSE result

StripIndex(p, cfg) ==
    IF cfg.index_html = "Forbid"
    THEN IF EndsWith(p, Slash \o IndexHtmlName) THEN TrimEndMatches(p, IndexHtmlName)
         ELSE IF EndsWith(p, Slash \o IndexHtmName) THEN TrimEndMatches(p, IndexHtmName)
         ELSE IF p \in {IndexHtmlName, Slash \o IndexHtmlName, IndexHtmName, Slash \o IndexHtmName}
              THEN Slash
              ELSE p
    ELSE p

\* the trailing-slash step removing one slash only under Never
EnforceTrailingSlash_OneSlash(p, cfg) ==
    IF p # Slash
    THEN CASE cfg.trailing_slash = "Always" ->
                 IF ~EndsWith(p, Slash) THEN p \o Slash ELSE p
           [] cfg.trailing_slash = "Never" ->
                 IF EndsWith(p, Slash) /\ Len(p) > 1 THEN SubSeq(p, 1, Len(p) - 1) ELSE p
           [] cfg.trailing_slash = "Ignore" -> p
    ELSE p

EnforceTrailingSlash(p, cfg) ==
    IF p # Slash
    THEN CASE cfg.trailing_slash = "Always" ->
                 IF ~EndsWith(p, Slash) THEN p \o Slash ELSE p
           [] cfg.trailing_slash = "Never" ->
                 IF EndsWith(p, Slash) /\ Len(p) > 1 THEN TrimEndMatches(p, Slash) ELSE p
           [] cfg.trailing_slash = "Ignore" -> p
    ELSE p

normalize_path(path, cfg) == EnforceTrailingSlash(StripIndex(collapse_dots(path), cfg), cfg)

\* file_path_to_route: the extension is stripped whatever the policy says
StripExtension(route) ==
    IF EndsWith(route, Slash \o IndexHtmlName) THEN TrimEndMatches(route, IndexHtmlName)
    ELSE IF EndsWith(route, Slash \o IndexHtmName) THEN TrimEndMatches(route, IndexHtmName)
    ELSE IF EndsWith(route, HtmlExt) THEN TrimEndMatches(route, HtmlExt)
    ELSE IF EndsWith(route, HtmExt) THEN TrimEndMatches(route, HtmExt)
    ELSE route

\* rel_path.replace('\\', "/")
ReplaceBackslash(s) == [i \in 1..Len(s) |-> IF s[i] = "\\" THEN "/" ELSE s[i]]

file_path_to_route(rel_path, cfg) ==
    LET route == StripExtension(Slash \o ReplaceBackslash(rel_path))
    IN  normalize_path(IF route = <<>> THEN Slash ELSE route, cfg)

(* The url crate, for http and https URLs whose path holds no dot segment  *)
(* and no character that is percent-encoded: every absolute URL the model  *)
(* draws is of this kind.  Option<T> is a sequence of at most one T.       *)

Http == <<"h", "t", "t", "p">>
Https == <<"h", "t", "t", "p", "s">>
SchemeSep == <<":", "/", "/">>
Colon == <<":">>
Hash == <<"#">>
QMark == <<"?">>

Some(v) == <<v>>
NoneOpt == <<>>
IsSome(o) == Len(o) = 1

\* index of the first character of s that is in chars, Len(s) + 1 when none is
FirstOf(s, chars) ==
    IF \E i \in 1..Len(s) : s[i] \in chars
    THEN CHOOSE i \in 1..Len(s) : s[i] \in chars /\ \A j \in 1..(i - 1) : s[j] \notin chars
    ELSE Len(s) + 1

DefaultPort(scheme) == IF scheme = Https THEN <<"4", "4", "3">> ELSE <<"8", "0">>

\* Url::parse: Option<Url>; a string with no scheme is RelativeUrlWithoutBase
UrlParse(s) ==
    LET scheme == IF StartsWith(s, Https \o SchemeSep) THEN Https
                  ELSE IF StartsWith(s, Http \o SchemeSep) THEN Http
                  ELSE <<>>
        rest == SubSeq(s, Len(scheme) + 4, Len(s))
        authEnd == FirstOf(rest, {"/", "?", "#"})
        authority == SubSeq(rest, 1, authEnd - 1)
        portAt == FirstOf(authority, {":"})
        host == SubSeq(authority, 1, portAt - 1)
        port == SubSeq(authority, portAt + 1, Len(authority))
        tail == SubSeq(rest, authEnd, Len(rest))
        pathEnd == FirstOf(tail, {"?", "#"})
        path == SubSeq(tail, 1, pathEnd - 1)
        afterPath == SubSeq(tail, pathEnd, Len(tail))
        fragAt == FirstOf(afterPath, {"#"})
    IN  IF scheme = <<>> \/ host = <<>>
        THEN NoneOpt
        ELSE Some([scheme |-> scheme,
                   host |-> host,
                   port |-> IF port = <<>> THEN DefaultPort(scheme) ELSE port,
                   path |-> IF path = <<>> THEN Slash ELSE path,
                   query |-> SubSeq(afterPath, 1, fragAt - 1),
                   fragment |-> SubSeq(afterPath, fragAt, Len(afterPath))])

\* Url::origin: (scheme, host, port)
UrlOrigin(u) == <<u.scheme, u.host, u.port>>

\* Url::to_string: the default port is left out
UrlToString(u) ==
    u.scheme \o SchemeSep \o u.host
      \o (IF u.port = DefaultPort(u.scheme) THEN <<>> ELSE Colon \o u.port)
      \o u.path \o u.query \o u.fragment

\* Url::set_path: the path of an http(s) URL always starts with '/'
UrlSetPath(u, p) == [u EXCEPT !.path = IF StartsWith(p, Slash) THEN p ELSE Slash \o p]

\* Url::join of a reference that starts with a single '/': the path is replaced
\* and the base's query and fragment are dropped
UrlJoinPath(u, p) == [u EXCEPT !.path = p, !.query = <<>>, !.fragment = <<>>]

to_absolute(route, base_url) ==
    LET base == UrlParse(base_url)
    IN  IF IsSome(base) THEN Some(UrlToString(UrlJoinPath(base[1], route))) ELSE NoneOpt

strip_fragment_and_query(href) == Split(Split(href, Hash)[1], QMark)[1]

IsInternalAbsolute(href, base_url) ==
    /\ IsSome(base_url)
    /\ IsSome(UrlParse(base_url[1]))
    /\ IsSome(UrlParse(href))
    /\ UrlOrigin(UrlParse(href)[1]) = UrlOrigin(UrlParse(base_url[1])[1])

IsInternalProtocolRelative(href, base_url) ==
    /\ IsSome(base_url)
    /\ IsSome(UrlParse(base_url[1]))
    /\ LET full == UrlParse(UrlParse(base_url[1])[1].scheme \o Colon \o href)
       IN  IsSome(full) /\ full[1].host = UrlParse(base_url[1])[1].host

is_internal(href, base_url) ==
    IF ~Contains(href, SchemeSep) /\ ~StartsWith(href, Slash \o Slash) THEN TRUE
    ELSE IF StartsWith(href, Slash \o Slash) THEN IsInternalProtocolRelative(href, base_url)
    ELSE IsInternalAbsolute(href, base_url)

has_query_params(href) == Contains(Split(href, Hash)[1], QMark)

\* resolve_href joining the page directory and the href without collapsing
resolve_href_NoCollapse(href, page_route, base_url) ==
    LET clean == strip_fragment_and_query(href)
    IN  IF clean = <<>> THEN Some(page_route)
        ELSE IF StartsWith(clean, Slash) THEN Some(clean)
        ELSE Some(SubSeq(page_route, 1, RFind(page_route, Slash)) \o clean)

\* resolve_href without the case of the empty remainder
resolve_href_NoEmptyCase(href, page_route, base_url) ==
    LET clean == strip_fragment_and_query(href)
    IN  IF StartsWith(clean, Slash) THEN Some(collapse_dots(clean))
        ELSE Some(collapse_dots(SubSeq(page_route, 1, RFind(page_route, Slash)) \o clean))

\* resolve_href: Option<String>
resolve_href(href, page_route, base_url) ==
    LET clean == strip_fragment_and_query(href)
    IN  IF clean = <<>> THEN Some(page_route)
        ELSE IF Contains(clean, SchemeSep) \/ StartsWith(clean, Slash \o Slash)
        THEN IF IsSome(UrlParse(clean)) THEN Some(UrlParse(clean)[1].path)
             ELSE IF IsSome(base_url) /\ IsSome(UrlParse(base_url[1]))
                  THEN LET full == UrlParse(UrlParse(base_url[1])[1].scheme \o Colon \o clean)
                       IN  IF IsSome(full) THEN Some(full[1].path) ELSE NoneOpt
                  ELSE NoneOpt
        ELSE IF StartsWith(clean, Slash) THEN Some(collapse_dots(clean))
        ELSE LET page_dir == IF EndsWith(page_route, Slash) THEN page_route
                             ELSE IF RFind(page_route, Slash) > 0
                                  THEN SubSeq(page_route, 1, RFind(page_route, Slash))
                                  ELSE Slash
             IN  Some(collapse_dots(page_dir \o clean))

----------------------------------------------------------------------------
(* discovery/mod.rs: the build output directory and the SiteIndex.         *)
(*                                                                         *)
(* dist is the directory as the run finds it:                              *)
(*   is_dir   whether the dist path is a directory                         *)
(*   files    the regular files in the order WalkDir yields them, each     *)
(*            [rel, readable, doc]; doc is what the HTML parser exposes:   *)
(*            anchors (a[href] values), ids, hreflangs ([lang, href] of    *)
(*            link[rel=alternate][hreflang]), canonicals (hrefs of         *)
(*            link[rel=canonical]), robots (contents of meta[name=robots]) *)
(*   dirs     the directories WalkDir yields besides those of the files    *)
(*   finish   the order in which the parallel extraction tasks finish, as  *)
(*            places in files                                              *)
(*   sitemap  [exists, readable, events]: sitemap.xml as the sequence of   *)
(*            events the XML reader yields, "Err" where it is malformed    *)
(*   extra    what the single-page suites find: suite name -> levels       *)

RECURSIVE ConcatAll(_)
ConcatAll(ss) == IF Len(ss) = 0 THEN <<>> ELSE Head(ss) \o ConcatAll(Tail(ss))

Range(f) == {f[i] : i \in DOMAIN f}

NonEmptySeg(c) == c # <<>>

LastSeg(rel) == LET segs == Split(rel, Slash) IN segs[Len(segs)]

\* Path::extension
Extension(rel) ==
    LET name == LastSeg(rel)
        d == RFind(name, Dot)
    IN  IF d <= 1 THEN NoneOpt ELSE Some(SubSeq(name, d + 1, Len(name)))

IsHtmlFile(rel) == Extension(rel) \in {Some(<<"h", "t", "m", "l">>), Some(<<"h", "t", "m">>)}

Lower(c) ==
    CASE c = "N" -> "n" [] c = "O" -> "o" [] c = "I" -> "i"
      [] c = "D" -> "d" [] c = "E" -> "e" [] c = "X" -> "x" [] OTHER -> c

ToLowercase(s) == [i \in 1..Len(s) |-> Lower(s[i])]

NoIndexWord == <<"n", "o", "i", "n", "d", "e", "x">>

extract_canonical(doc) ==
    IF Len(doc.canonicals) = 0 THEN NoneOpt ELSE Some(doc.canonicals[1])

has_noindex(doc) ==
    \E i \in 1..Len(doc.robots) : Contains(ToLowercase(doc.robots[i]), NoIndexWord)

LocName == "loc"

\* parse_sitemap: the texts of the <loc> elements, in order
RECURSIVE ParseEvents(_, _, _)
ParseEvents(events, in_loc, urls) ==
    IF Len(events) = 0 THEN urls
    ELSE LET e == Head(events)
         IN  CASE e.t = "Start" /\ e.name = LocName -> ParseEvents(Tail(events), TRUE, urls)
               [] e.t = "Text" /\ in_loc -> ParseEvents(Tail(events), FALSE, Append(urls, Trim(e.text)))
               [] e.t = "End" /\ e.name = LocName -> ParseEvents(Tail(events), FALSE, urls)
               [] e.t = "Err" -> urls
               [] OTHER -> ParseEvents(Tail(events), in_loc, urls)

\* Result<Vec<String>> as Option: an unreadable file is the only Err
parse_sitemap(sitemap) ==
    IF ~sitemap.readable THEN NoneOpt ELSE Some(ParseEvents(sitemap.events, FALSE, <<>>))

GlobSetMatches(globs, rel) == \E g \in globs : rel \in g.matches

\* WalkDir: the entries under the build root, the files in discovery order
\* and the directories; at is the place of a file in d.files
WalkDir(d) ==
    [i \in 1..Len(d.files) |-> [rel |-> d.files[i].rel, is_file |-> TRUE, at |-> i]]
    \o [i \in 1..Len(d.dirs) |-> [rel |-> d.dirs[i], is_file |-> FALSE, at |-> 0]]

\* the filters of the discovery pass without the exclude globs
IsDiscovered_NoExclude(e, include, exclude) ==
    /\ e.is_file
    /\ IsHtmlFile(e.rel)
    /\ (include = {} \/ GlobSetMatches(include, e.rel))

\* the filters of the discovery pass, applied to one entry
IsDiscovered(e, include, exclude) ==
    /\ e.is_file
    /\ IsHtmlFile(e.rel)
    /\ (include = {} \/ GlobSetMatches(include, e.rel))
    /\ ~(exclude # {} /\ GlobSetMatches(exclude, e.rel))

\* the discovery filter of SiteIndex::build
Discovered(d, include, exclude) ==
    SelectSeq(WalkDir(d), LAMBDA e : IsDiscovered(e, include, exclude))

\* the extraction tasks that yield a page, in the order they finish: d.finish
\* orders the files; a file that cannot be read yields nothing
Extracted(d, html_files) ==
    SelectSeq(d.finish,
              LAMBDA i : /\ \E k \in 1..Len(html_files) : html_files[k].at = i
                         /\ d.files[i].readable)

\* collect() of the parallel iterator: without regard to the finishing order
ParCollect_AsFinished(done) == done

\* collect() of the parallel iterator: the results in the order of html_files
ParCollect(done) == SortSeq(done, LAMBDA a, b : a < b)

PageInfo(f, cfg) ==
    LET route == file_path_to_route(f.rel, cfg.url_normalization)
    IN  [rel_path |-> f.rel,
         route |-> route,
         absolute_url |-> IF IsSome(cfg.site.base_url)
                          THEN to_absolute(route, cfg.site.base_url[1])
                          ELSE NoneOpt,
         html_content |-> f.doc,
         canonical |-> extract_canonical(f.doc),
         noindex |-> has_noindex(f.doc)]

\* HashMap::insert in page order: a later page replaces an earlier one
RouteToIndex(pages) ==
    [r \in {pages[i].route : i \in 1..Len(pages)} |->
        CHOOSE i \in 1..Len(pages) :
            pages[i].route = r /\ \A j \in (i + 1)..Len(pages) : pages[j].route # r]

SiteIndexBuild(d, cfg, include, exclude) ==
    LET html_files == Discovered(d, include, exclude)
        kept == ParCollect(Extracted(d, html_files))
        pages == [i \in 1..Len(kept) |-> PageInfo(d.files[kept[i]], cfg)]
        parsed == IF d.sitemap.exists THEN parse_sitemap(d.sitemap) ELSE NoneOpt
    IN  [pages |-> pages,
         route_to_index |-> RouteToIndex(pages),
         sitemap_urls |-> IF IsSome(parsed) THEN Range(parsed[1]) ELSE {},
         base_url |-> cfg.site.base_url]

EmptyIndex == [pages |-> <<>>, route_to_index |-> <<>>, sitemap_urls |-> {}, base_url |-> NoneOpt]

route_exists(idx, route) == route \in DOMAIN idx.route_to_index

SitemapName == <<"s", "i", "t", "e", "m", "a", "p", ".", "x", "m", "l">>

Components(rel) == SelectSeq(Split(rel, Slash), NonEmptySeg)

\* an existence test that accepts regular files only
file_exists_FilesOnly(d, rel_path) ==
    LET cs == Components(rel_path)
        paths == {d.files[i].rel : i \in 1..Len(d.files)}
                    \cup (IF d.sitemap.exists THEN {SitemapName} ELSE {})
    IN  \E f \in paths : Components(f) = cs /\ ~EndsWith(rel_path, Slash)

\* dist_path.join(rel_path).exists(): true of a file, of a directory and of
\* the build root itself (the empty path)
file_exists(d, rel_path) ==
    LET cs == Components(rel_path)
        paths == {d.files[i].rel : i \in 1..Len(d.files)}
                    \cup (IF d.sitemap.exists THEN {SitemapName} ELSE {})
    IN  \/ cs = <<>>
        \/ \E f \in paths :
              LET fc == Components(f)
              IN  \/ fc = cs /\ ~EndsWith(rel_path, Slash)
                  \/ Len(fc) > Len(cs) /\ SubSeq(fc, 1, Len(cs)) = cs
        \/ \E i \in 1..Len(d.dirs) :
              LET dc == Components(d.dirs[i])
              IN  Len(dc) >= Len(cs) /\ SubSeq(dc, 1, Len(cs)) = cs

Finding(level, rule_id, file, selector) ==
    [level |-> level, rule_id |-> rule_id, file |-> file, selector |-> selector]

\* the selectors findings carry, as the checks format them
AnchorSelector(href) == <<"a", "[", "h", "r", "e", "f", "=", "'">> \o href \o <<"'", "]">>
CanonicalSelector(href) ==
    <<"l", "i", "n", "k", "[", "r", "e", "l", "=", "'", "c", "a", "n", "o", "n", "i", "c", "a", "l", "'", "]", "[", "h", "r", "e", "f", "=", "'">>
    \o href \o <<"'", "]">>
HreflangSelector(lang, href) ==
    <<"l", "i", "n", "k", "[", "h", "r", "e", "f", "l", "a", "n", "g", "=", "'">> \o lang
    \o <<"'", "]", "[", "h", "r", "e", "f", "=", "'">> \o href \o <<"'", "]">>
LocSelector(url_str) == <<"<", "l", "o", "c", ">">> \o url_str \o <<"<", "/", "l", "o", "c", ">">>
HeadSelector == <<"h", "e", "a", "d">>
CanonicalLinkSelector ==
    <<"l", "i", "n", "k", "[", "r", "e", "l", "=", "'", "c", "a", "n", "o", "n", "i", "c", "a", "l", "'", "]">>
RobotsMetaSelector ==
    <<"m", "e", "t", "a", "[", "n", "a", "m", "e", "=", "'", "r", "o", "b", "o", "t", "s", "'", "]">>
AlternateSelector ==
    <<"l", "i", "n", "k", "[", "r", "e", "l", "=", "'", "a", "l", "t", "e", "r", "n", "a", "t", "e", "'", "]", "[", "h", "r", "e", "f", "l", "a", "n", "g", "]">>

----------------------------------------------------------------------------
(* checks/links.rs                                                         *)

MailtoPrefix == <<"m", "a", "i", "l", "t", "o", ":">>
TelPrefix == <<"t", "e", "l", ":">>
JavascriptPrefix == <<"j", "a", "v", "a", "s", "c", "r", "i", "p", "t", ":">>
HttpPrefix == Http \o SchemeSep

\* href.split('#').nth(1)
FragmentOf(href) ==
    LET parts == Split(href, Hash) IN IF Len(parts) >= 2 THEN Some(parts[2]) ELSE NoneOpt

\* links/broken for one anchor whose href resolved
BrokenFinding(d, idx, cfg, page, href, resolved) ==
    LET normalized == normalize_path(resolved, cfg.url_normalization)
    IN  IF ~route_exists(idx, normalized)
           /\ ~file_exists(d, TrimStartMatches(resolved, Slash))
        THEN <<Finding(IF cfg.links.fail_on_broken THEN "Error" ELSE "Warning",
                       "links/broken", page.rel_path, AnchorSelector(href))>>
        ELSE <<>>

\* CrossFragmentFinding looking for the id on the page that holds the link
CrossFragmentFinding_SourcePage(idx, cfg, page, href, resolved) ==
    LET normalized == normalize_path(resolved, cfg.url_normalization)
        fragment == FragmentOf(href)
    IN  IF /\ cfg.links.check_fragments
           /\ IsSome(fragment)
           /\ fragment[1] # <<>>
           /\ route_exists(idx, normalized)
           /\ fragment[1] \notin page.html_content.ids
        THEN <<Finding("Warning", "links/broken-fragment", page.rel_path, AnchorSelector(href))>>
        ELSE <<>>

\* links/broken-fragment for a cross-page link
CrossFragmentFinding(idx, cfg, page, href, resolved) ==
    LET normalized == normalize_path(resolved, cfg.url_normalization)
        fragment == FragmentOf(href)
    IN  IF /\ cfg.links.check_fragments
           /\ IsSome(fragment)
           /\ fragment[1] # <<>>
           /\ route_exists(idx, normalized)
           /\ fragment[1] \notin idx.pages[idx.route_to_index[normalized]].html_content.ids
        THEN <<Finding("Warning", "links/broken-fragment", page.rel_path, AnchorSelector(href))>>
        ELSE <<>>

\* AnchorFindings deciding the query and mixed-content findings only for an
\* anchor whose target is found
AnchorFindings_AfterResolution(d, idx, cfg, page, href) ==
    IF ~is_internal(href, idx.base_url) THEN <<>>
    ELSE IF StartsWith(href, MailtoPrefix) \/ StartsWith(href, TelPrefix)
            \/ StartsWith(href, JavascriptPrefix) THEN <<>>
    ELSE IF StartsWith(href, Hash)
    THEN IF /\ cfg.links.check_fragments
            /\ Len(href) > 1
            /\ SubSeq(href, 2, Len(href)) \notin page.html_content.ids
         THEN <<Finding("Warning", "links/broken-fragment", page.rel_path, AnchorSelector(href))>>
         ELSE <<>>
    ELSE LET resolved == resolve_href(href, page.route, idx.base_url)
             found == IsSome(resolved) /\ BrokenFinding(d, idx, cfg, page, href, resolved[1]) = <<>>
         IN  (IF found /\ cfg.links.forbid_query_params_internal /\ has_query_params(href)
              THEN <<Finding("Error", "links/query-params", page.rel_path, AnchorSelector(href))>>
              ELSE <<>>)
             \o (IF found /\ cfg.links.check_mixed_content /\ StartsWith(href, HttpPrefix)
                 THEN <<Finding("Warning", "links/mixed-content", page.rel_path, AnchorSelector(href))>>
                 ELSE <<>>)
             \o (IF IsSome(resolved)
                 THEN BrokenFinding(d, idx, cfg, page, href, resolved[1])
                        \o CrossFragmentFinding(idx, cfg, page, href, resolved[1])
                 ELSE <<>>)

\* the body of check_internal_links' loop over a[href]
AnchorFindings(d, idx, cfg, page, href) ==
    IF ~is_internal(href, idx.base_url) THEN <<>>
    ELSE IF StartsWith(href, MailtoPrefix) \/ StartsWith(href, TelPrefix)
            \/ StartsWith(href, JavascriptPrefix) THEN <<>>
    ELSE IF StartsWith(href, Hash)
    THEN IF /\ cfg.links.check_fragments
            /\ Len(href) > 1
            /\ SubSeq(href, 2, Len(href)) \notin page.html_content.ids
         THEN <<Finding("Warning", "links/broken-fragment", page.rel_path, AnchorSelector(href))>>
         ELSE <<>>
    ELSE LET resolved == resolve_href(href, page.route, idx.base_url)
         IN  (IF cfg.links.forbid_query_params_internal /\ has_query_params(href)
              THEN <<Finding("Error", "links/query-params", page.rel_path, AnchorSelector(href))>>
              ELSE <<>>)
             \o (IF cfg.links.check_mixed_content /\ StartsWith(href, HttpPrefix)
                 THEN <<Finding("Warning", "links/mixed-content", page.rel_path, AnchorSelector(href))>>
                 ELSE <<>>)
             \o (IF IsSome(resolved)
                 THEN BrokenFinding(d, idx, cfg, page, href, resolved[1])
                        \o CrossFragmentFinding(idx, cfg, page, href, resolved[1])
                 ELSE <<>>)

check_internal_links(d, idx, cfg) ==
    ConcatAll([i \in 1..Len(idx.pages) |->
        ConcatAll([k \in 1..Len(idx.pages[i].html_content.anchors) |->
            AnchorFindings(d, idx, cfg, idx.pages[i], idx.pages[i].html_content.anchors[k])])])

\* pass 1 of check_orphan_pages: the routes one page links to
PageLinkedRoutes(idx, cfg, page) ==
    {normalize_path(resolve_href(h, page.route, idx.base_url)[1], cfg.url_normalization) :
        h \in {g \in Range(page.html_content.anchors) :
                  /\ is_internal(g, idx.base_url)
                  /\ ~StartsWith(g, Hash)
                  /\ ~StartsWith(g, MailtoPrefix)
                  /\ ~StartsWith(g, TelPrefix)
                  /\ IsSome(resolve_href(g, page.route, idx.base_url))}}

\* LinkedRoutes without the root seed
LinkedRoutes_NoSeed(idx, cfg) ==
    UNION {PageLinkedRoutes(idx, cfg, idx.pages[i]) : i \in 1..Len(idx.pages)}

\* pass 2: the union of the per-page sets, seeded with the root route
LinkedRoutes(idx, cfg) ==
    {Slash} \cup UNION {PageLinkedRoutes(idx, cfg, idx.pages[i]) : i \in 1..Len(idx.pages)}

check_orphan_pages(idx, cfg) ==
    LET linked_routes == LinkedRoutes(idx, cfg)
        orphans == SelectSeq(idx.pages, LAMBDA page : page.route \notin linked_routes)
    IN  [i \in 1..Len(orphans) |->
            Finding("Warning", "links/orphan-page", orphans[i].rel_path, <<>>)]

\* links_check_all running the link check whatever links.check_internal says
links_check_all_Ungated(d, idx, cfg) ==
    check_internal_links(d, idx, cfg)
    \o (IF cfg.links.detect_orphan_pages THEN check_orphan_pages(idx, cfg) ELSE <<>>)

links_check_all(d, idx, cfg) ==
    (IF cfg.links.check_internal THEN check_internal_links(d, idx, cfg) ELSE <<>>)
    \o (IF cfg.links.detect_orphan_pages THEN check_orphan_pages(idx, cfg) ELSE <<>>)

----------------------------------------------------------------------------
(* checks/seo.rs                                                           *)

\* check_canonical once a first canonical with a non-empty href is known
CanonicalHrefFindings(idx, cfg, page, href) ==
    LET parsed == UrlParse(href)
        base == IF IsSome(idx.base_url) THEN UrlParse(idx.base_url[1]) ELSE NoneOpt
    IN  IF cfg.canonical.absolute /\ ~IsSome(parsed)
        THEN <<Finding("Error", "canonical/not-absolute", page.rel_path, CanonicalSelector(href))>>
        ELSE (IF /\ cfg.canonical.same_origin
                 /\ IsSome(base) /\ IsSome(parsed)
                 /\ UrlOrigin(parsed[1]) # UrlOrigin(base[1])
              THEN <<Finding("Error", "canonical/cross-origin", page.rel_path, CanonicalSelector(href))>>
              ELSE <<>>)
             \o (IF /\ cfg.canonical.self_reference
                    /\ IsSome(page.absolute_url)
                    /\ normalize_path(href, cfg.url_normalization)
                         # normalize_path(page.absolute_url[1], cfg.url_normalization)
                 THEN <<Finding("Warning", "canonical/not-self", page.rel_path, CanonicalSelector(href))>>
                 ELSE <<>>)
             \o (IF /\ IsSome(parsed)
                    /\ ~route_exists(idx, normalize_path(parsed[1].path, cfg.url_normalization))
                 THEN <<Finding("Warning", "canonical/target-missing", page.rel_path, CanonicalSelector(href))>>
                 ELSE <<>>)

check_canonical(idx, cfg, page) ==
    LET canonicals == page.html_content.canonicals
    IN  IF Len(canonicals) = 0
        THEN <<Finding("Error", "canonical/missing", page.rel_path, HeadSelector)>>
        ELSE (IF Len(canonicals) > 1
              THEN <<Finding("Error", "canonical/multiple", page.rel_path, CanonicalLinkSelector)>>
              ELSE <<>>)
             \o (IF Trim(canonicals[1]) = <<>>
                 THEN <<Finding("Error", "canonical/empty", page.rel_path, CanonicalLinkSelector)>>
                 ELSE CanonicalHrefFindings(idx, cfg, page, canonicals[1]))

check_robots(cfg, page) ==
    IF page.noindex
    THEN IF cfg.robots_meta.fail_if_noindex
         THEN <<Finding("Error", "robots/noindex", page.rel_path, RobotsMetaSelector)>>
         ELSE IF ~cfg.robots_meta.allow_noindex
              THEN <<Finding("Warning", "robots/noindex", page.rel_path, RobotsMetaSelector)>>
              ELSE <<>>
    ELSE <<>>

seo_check_all(idx, cfg) ==
    ConcatAll([i \in 1..Len(idx.pages) |->
        (IF cfg.canonical.require THEN check_canonical(idx, cfg, idx.pages[i]) ELSE <<>>)
        \o check_robots(cfg, idx.pages[i])])

----------------------------------------------------------------------------
(* checks/hreflang.rs                                                      *)

XDefault == <<"x", "-", "d", "e", "f", "a", "u", "l", "t">>

\* the per-page findings without the skip of pages that declare no pair
PageHreflangFindings_EmptyToo(cfg, page) ==
    LET entries == page.html_content.hreflangs
    IN  (IF /\ cfg.hreflang.require_x_default
            /\ ~\E k \in 1..Len(entries) : entries[k].lang = XDefault
         THEN <<Finding("Warning", "hreflang/no-x-default", page.rel_path, AlternateSelector)>>
         ELSE <<>>)
        \o (IF /\ cfg.hreflang.require_self_reference
               /\ ~\E k \in 1..Len(entries) :
                     IsSome(page.absolute_url) /\ entries[k].href = page.absolute_url[1]
            THEN <<Finding("Warning", "hreflang/no-self-reference", page.rel_path, AlternateSelector)>>
            ELSE <<>>)

\* the per-page findings of the first loop
PageHreflangFindings(cfg, page) ==
    LET entries == page.html_content.hreflangs
    IN  IF Len(entries) = 0 THEN <<>>
        ELSE (IF /\ cfg.hreflang.require_x_default
                 /\ ~\E k \in 1..Len(entries) : entries[k].lang = XDefault
              THEN <<Finding("Warning", "hreflang/no-x-default", page.rel_path, AlternateSelector)>>
              ELSE <<>>)
             \o (IF /\ cfg.hreflang.require_self_reference
                    /\ ~\E k \in 1..Len(entries) :
                          IsSome(page.absolute_url) /\ entries[k].href = page.absolute_url[1]
                 THEN <<Finding("Warning", "hreflang/no-self-reference", page.rel_path, AlternateSelector)>>
                 ELSE <<>>)

\* all_hreflangs: route -> entries, of the pages that declare some; a later
\* page replaces an earlier one of the same route
AllHreflangs(idx) ==
    LET declaring == {i \in 1..Len(idx.pages) : Len(idx.pages[i].html_content.hreflangs) > 0}
    IN  [r \in {idx.pages[i].route : i \in declaring} |->
            idx.pages[CHOOSE i \in declaring :
                        /\ idx.pages[i].route = r
                        /\ \A j \in declaring : j > i => idx.pages[j].route # r].html_content.hreflangs]

\* pages.iter().find(..)
FirstPage(idx, Test(_)) ==
    LET hits == {i \in 1..Len(idx.pages) : Test(idx.pages[i])}
    IN  IF hits = {} THEN NoneOpt
        ELSE Some(idx.pages[CHOOSE i \in hits : \A j \in hits : i <= j])

\* the reciprocity test of one (lang, href) pair of the page of source_route
ReciprocalFinding(idx, all_hreflangs, source_route, entry) ==
    LET target == FirstPage(idx, LAMBDA p : IsSome(p.absolute_url) /\ p.absolute_url[1] = entry.href)
        source == FirstPage(idx, LAMBDA p : p.route = source_route)
    IN  IF /\ entry.lang # XDefault
           /\ IsSome(target)
           /\ target[1].route \in DOMAIN all_hreflangs
           /\ ~(/\ IsSome(source[1].absolute_url)
                /\ \E k \in 1..Len(all_hreflangs[target[1].route]) :
                      all_hreflangs[target[1].route][k].href = source[1].absolute_url[1])
        THEN <<Finding("Warning", "hreflang/no-reciprocal", source[1].rel_path,
                       HreflangSelector(entry.lang, entry.href))>>
        ELSE <<>>

\* the map is walked in the order of the pages that own its entries
ReciprocalFindings(idx) ==
    LET all_hreflangs == AllHreflangs(idx)
        owners == SelectSeq([i \in 1..Len(idx.pages) |-> i],
                    LAMBDA i : /\ Len(idx.pages[i].html_content.hreflangs) > 0
                               /\ \A j \in (i + 1)..Len(idx.pages) :
                                     ~(/\ Len(idx.pages[j].html_content.hreflangs) > 0
                                       /\ idx.pages[j].route = idx.pages[i].route))
    IN  ConcatAll([o \in 1..Len(owners) |->
            ConcatAll([k \in 1..Len(all_hreflangs[idx.pages[owners[o]].route]) |->
                ReciprocalFinding(idx, all_hreflangs, idx.pages[owners[o]].route,
                                  all_hreflangs[idx.pages[owners[o]].route][k])])])

hreflang_check_all(idx, cfg) ==
    IF ~cfg.hreflang.check_hreflang THEN <<>>
    ELSE ConcatAll([i \in 1..Len(idx.pages) |-> PageHreflangFindings(cfg, idx.pages[i])])
         \o (IF cfg.hreflang.require_reciprocal THEN ReciprocalFindings(idx) ELSE <<>>)

----------------------------------------------------------------------------
(* checks/sitemap.rs                                                       *)

RECURSIVE SetToSeq(_)
SetToSeq(S) == IF S = {} THEN <<>> ELSE LET x == CHOOSE y \in S : TRUE IN <<x>> \o SetToSeq(S \ {x})

\* a URL with its path normalized, as the check rebuilds it
NormalizedUrl(u, cfg) ==
    UrlToString(UrlSetPath(u, normalize_path(u.path, cfg.url_normalization)))

NormalizedSitemap(idx, cfg) ==
    {NormalizedUrl(UrlParse(u)[1], cfg) : u \in {v \in idx.sitemap_urls : IsSome(UrlParse(v))}}

NormalizedCanonical(canonical, cfg) ==
    IF IsSome(UrlParse(canonical)) THEN NormalizedUrl(UrlParse(canonical)[1], cfg) ELSE canonical

\* CanonicalMissingFindings without the noindex skip
CanonicalMissingFindings_NoindexToo(idx, cfg) ==
    LET normalized_sitemap == NormalizedSitemap(idx, cfg)
        flagged == SelectSeq(idx.pages,
                     LAMBDA page : /\ IsSome(page.canonical)
                                   /\ NormalizedCanonical(page.canonical[1], cfg) \notin normalized_sitemap)
    IN  [i \in 1..Len(flagged) |->
            Finding("Warning", "sitemap/canonical-missing", flagged[i].rel_path,
                    CanonicalSelector(flagged[i].canonical[1]))]

CanonicalMissingFindings(idx, cfg) ==
    LET normalized_sitemap == NormalizedSitemap(idx, cfg)
        flagged == SelectSeq(idx.pages,
                     LAMBDA page : /\ ~page.noindex
                                   /\ IsSome(page.canonical)
                                   /\ NormalizedCanonical(page.canonical[1], cfg) \notin normalized_sitemap)
    IN  [i \in 1..Len(flagged) |->
            Finding("Warning", "sitemap/canonical-missing", flagged[i].rel_path,
                    CanonicalSelector(flagged[i].canonical[1]))]

\* EntryNotInDistFindings looking the URL's path up as it is written
EntryNotInDistFindings_RawPath(idx, cfg) ==
    LET stale == SelectSeq(SetToSeq(idx.sitemap_urls),
                   LAMBDA u : /\ IsSome(UrlParse(u))
                              /\ ~route_exists(idx, UrlParse(u)[1].path))
    IN  [i \in 1..Len(stale) |-> Finding("Warning", "sitemap/entry-not-in-dist", SitemapName,
                                         LocSelector(stale[i]))]

EntryNotInDistFindings(idx, cfg) ==
    LET stale == SelectSeq(SetToSeq(idx.sitemap_urls),
                   LAMBDA u : /\ IsSome(UrlParse(u))
                              /\ ~route_exists(idx, normalize_path(UrlParse(u)[1].path, cfg.url_normalization)))
    IN  [i \in 1..Len(stale) |-> Finding("Warning", "sitemap/entry-not-in-dist", SitemapName,
                                         LocSelector(stale[i]))]

NonCanonicalEntryFindings(idx, cfg) ==
    LET PageOf(u) == idx.pages[idx.route_to_index[normalize_path(UrlParse(u)[1].path, cfg.url_normalization)]]
        bad == SelectSeq(SetToSeq(idx.sitemap_urls),
                 LAMBDA u : /\ IsSome(UrlParse(u))
                            /\ route_exists(idx, normalize_path(UrlParse(u)[1].path, cfg.url_normalization))
                            /\ IsSome(PageOf(u).canonical)
                            /\ PageOf(u).canonical[1] # u)
    IN  [i \in 1..Len(bad) |-> Finding("Warning", "sitemap/non-canonical-entry", SitemapName,
                                       LocSelector(bad[i]))]

sitemap_check_all(d, idx, cfg) ==
    IF ~d.sitemap.exists
    THEN IF cfg.sitemap.require
         THEN <<Finding("Error", "sitemap/missing", SitemapName, <<>>)>>
         ELSE <<>>
    ELSE IF idx.sitemap_urls = {} THEN <<>>
    ELSE (IF cfg.sitemap.canonical_must_be_in_sitemap THEN CanonicalMissingFindings(idx, cfg) ELSE <<>>)
         \o (IF cfg.sitemap.entries_must_exist_in_dist THEN EntryNotInDistFindings(idx, cfg) ELSE <<>>)
         \o (IF cfg.sitemap.forbid_noncanonical_in_sitemap THEN NonCanonicalEntryFindings(idx, cfg) ELSE <<>>)

----------------------------------------------------------------------------
(* config/mod.rs and main.rs                                               *)

DefaultConfig ==
    [site |-> [base_url |-> NoneOpt],
     url_normalization |-> [trailing_slash |-> "Always", index_html |-> "Forbid"],
     canonical |-> [require |-> TRUE, absolute |-> TRUE, same_origin |-> TRUE,
                    self_reference |-> FALSE],
     robots_meta |-> [allow_noindex |-> TRUE, fail_if_noindex |-> FALSE],
     links |-> [check_internal |-> TRUE, fail_on_broken |-> TRUE,
                forbid_query_params_internal |-> TRUE, check_fragments |-> FALSE,
                detect_orphan_pages |-> FALSE, check_mixed_content |-> TRUE],
     sitemap |-> [require |-> FALSE, canonical_must_be_in_sitemap |-> TRUE,
                  forbid_noncanonical_in_sitemap |-> FALSE, entries_must_exist_in_dist |-> TRUE],
     hreflang |-> [check_hreflang |-> FALSE, require_x_default |-> FALSE,
                   require_self_reference |-> FALSE, require_reciprocal |-> FALSE]]

\* the check suites in the order run() starts them
SuiteNames ==
    <<"seo", "links", "a11y", "html_basics", "headings", "sitemap", "robots_txt", "assets",
      "opengraph", "structured_data", "hreflang", "security", "content_quality">>

\* the suites that look at one page at a time; what they find is given by dist.extra
SinglePageSuites ==
    {"a11y", "html_basics", "headings", "robots_txt", "assets", "opengraph",
     "structured_data", "security", "content_quality"}

ExtraFindings(d, name) ==
    [i \in 1..Len(d.extra[name]) |-> Finding(d.extra[name][i], name, <<>>, <<>>)]

SuiteFindings(name, d, idx, cfg) ==
    CASE name = "seo" -> seo_check_all(idx, cfg)
      [] name = "links" -> links_check_all(d, idx, cfg)
      [] name = "sitemap" -> sitemap_check_all(d, idx, cfg)
      [] name = "hreflang" -> hreflang_check_all(idx, cfg)
      [] OTHER -> ExtraFindings(d, name)

\* run(): explicit config file > auto-discovered file > defaults; Option<Config>,
\* None when the explicit file cannot be read or parsed
LoadedConfig(c) ==
    IF IsSome(c.config)
    THEN IF c.config[1].parses THEN Some(c.config[1].value) ELSE NoneOpt
    ELSE IF IsSome(c.discovered) THEN Some(c.discovered[1]) ELSE Some(DefaultConfig)

\* run(): the CLI overrides (the flags of the single-page suites act on dist.extra only)
CliOverrides(cfg, c) ==
    LET sited == IF IsSome(c.site) THEN [cfg EXCEPT !.site.base_url = c.site] ELSE cfg
    IN  IF c.no_sitemap_check
        THEN [sited EXCEPT !.sitemap = [require |-> FALSE,
                                        canonical_must_be_in_sitemap |-> FALSE,
                                        forbid_noncanonical_in_sitemap |-> FALSE,
                                        entries_must_exist_in_dist |-> FALSE]]
        ELSE sited

\* a count of the findings of every level
ErrorsIn_AnyLevel(fs) == Len(fs)

ErrorsIn(fs) == Cardinality({i \in 1..Len(fs) : fs[i].level = "Error"})

WarningsIn(fs) == Cardinality({i \in 1..Len(fs) : fs[i].level = "Warning"})

BudgetExceeded == IsSome(cli.max_errors) /\ error_count >= cli.max_errors[1]

\* load the configuration and apply the CLI overrides; a bad explicit file is fatal
LoadConfig ==
    /\ pc = "start"
    /\ IF IsSome(LoadedConfig(cli))
       THEN /\ config' = CliOverrides(LoadedConfig(cli)[1], cli)
            /\ pc' = "configured"
            /\ UNCHANGED exit_code
       ELSE /\ pc' = "fatal"
            /\ exit_code' = 2
            /\ UNCHANGED config
    /\ UNCHANGED <<call, ret, dist, cli, index, findings, error_count, suite>>

\* BuildIndex starting the suites before the index is there
BuildIndex_Late ==
    /\ pc = "configured"
    /\ pc' = "checks"
    /\ suite' = 1
    /\ UNCHANGED <<call, ret, dist, config, cli, index, findings, error_count, exit_code>>

\* validate the dist path and build the SiteIndex; an invalid glob is fatal
BuildIndex ==
    /\ pc = "configured"
    /\ IF dist.is_dir /\ \A g \in cli.include \cup cli.exclude : g.valid
       THEN /\ index' = SiteIndexBuild(dist, config, cli.include, cli.exclude)
            /\ pc' = "checks"
            /\ suite' = 1
            /\ UNCHANGED exit_code
       ELSE /\ pc' = "fatal"
            /\ exit_code' = 2
            /\ UNCHANGED <<index, suite>>
    /\ UNCHANGED <<call, ret, dist, config, cli, findings, error_count>>

\* the run_check! macro applied to the findings of one suite
RunCheckMacro(new_findings) ==
    IF ~BudgetExceeded
    THEN /\ error_count' = error_count + ErrorsIn(new_findings)
         /\ findings' = findings \o new_findings
    ELSE UNCHANGED <<findings, error_count>>

\* run(): the next suite, in order; the sitemap suite is left out by --no-sitemap-check
RunCheck ==
    /\ pc = "checks"
    /\ suite \in 1..Len(SuiteNames)
    /\ IF SuiteNames[suite] = "sitemap" /\ cli.no_sitemap_check
       THEN UNCHANGED <<findings, error_count>>
       ELSE RunCheckMacro(SuiteFindings(SuiteNames[suite], dist, index, config))
    /\ suite' = suite + 1
    /\ pc' = IF suite = Len(SuiteNames) THEN "report" ELSE "checks"
    /\ UNCHANGED <<call, ret, dist, config, cli, index, exit_code>>

\* Summary::from_findings
SummaryFromFindings(fs) ==
    [errors |-> Cardinality({i \in 1..Len(fs) : fs[i].level = "Error"}),
     warnings |-> Cardinality({i \in 1..Len(fs) : fs[i].level = "Warning"}),
     info |-> Cardinality({i \in 1..Len(fs) : fs[i].level = "Info"}),
     files_checked |-> 0]

\* the exit code of a run that counts warnings whether --strict is given or not
ExitCode_AlwaysStrict(summary, strict) ==
    IF summary.errors > 0 \/ summary.warnings > 0 THEN 1 ELSE 0

\* run(): the exit code of a run that completes
ExitCode(summary, strict) ==
    IF summary.errors > 0 \/ (strict /\ summary.warnings > 0) THEN 1 ELSE 0

\* run(): the report (the findings and their summary, as printed) and the exit code
Report ==
    /\ pc = "report"
    /\ LET summary == [SummaryFromFindings(findings) EXCEPT !.files_checked = Len(index.pages)]
       IN  /\ ret' = <<[findings |-> findings, summary |-> summary]>>
           /\ exit_code' = ExitCode(summary, cli.strict)
    /\ pc' = "done"
    /\ UNCHANGED <<call, dist, config, cli, index, findings, error_count, suite>>

NextRun == LoadConfig \/ BuildIndex \/ RunCheck \/ Report

\* one suite applied to the index right after it is built
CheckOnly(name) ==
    /\ pc = "checks"
    /\ RunCheckMacro(SuiteFindings(name, dist, index, config))
    /\ pc' = "checked"
    /\ UNCHANGED <<call, ret, dist, config, cli, index, suite, exit_code>>

CheckLinks == CheckOnly("links")

CheckSitemap == CheckOnly("sitemap")

CheckHreflang == CheckOnly("hreflang")

CheckSeo == CheckOnly("seo")

----------------------------------------------------------------------------
(* Library calls: a pure function applied to inputs drawn from bounded     *)
(* sets; ret records the results of successive applications.               *)

MaxChunks == 3

PathChunks == {Slash, <<"a">>, Dot, DotDot, IndexHtmlName, IndexHtmName}

RECURSIVE ChunkStrings(_)
ChunkStrings(n) ==
    IF n = 0 THEN {<<>>}
    ELSE LET shorter == ChunkStrings(n - 1)
         IN  shorter \cup {s \o c : s \in shorter, c \in PathChunks}

PathInputs == ChunkStrings(MaxChunks)

NormalizeCalls ==
    [fn : {"normalize_path"}, path : PathInputs, cfg : UrlNormalizationConfig]

\* paths for collapse_dots: the chunk strings and two longer ones
CollapseCalls ==
    [fn : {"collapse_dots"},
     path : PathInputs \cup {<<"/", ".", ".", "/", "a">>, <<"/", "a", "/", "b", "/", "c", "/", ".", ".", "/", ".", ".", "/", "d">>}]

\* hrefs for is_internal, kept with the parts they are written from
HostX == <<"x">>
HostY == <<"y">>
Port8 == <<":", "8">>
HrefTails == {<<>>, <<"/", "a">>, <<"/", "a", "#", "f">>, <<"/", "a", "?", "q">>}

RelativeHrefs ==
    {<<"/", "a">>, <<"a">>, <<".", ".", "/", "a">>, <<"#", "f">>, <<"/", "a", "?", "q">>,
     <<>>, <<"m", "a", "i", "l", "t", "o", ":", "x">>, <<"/", "a", "/", "b">>}

HrefInputs ==
    {[kind |-> "relative", scheme |-> <<>>, host |-> <<>>, href |-> h] : h \in RelativeHrefs}
    \cup {[kind |-> "protocol-relative", scheme |-> <<>>, host |-> h,
           href |-> Slash \o Slash \o h \o p \o t] :
             h \in {HostX, HostY}, p \in {<<>>, Port8}, t \in HrefTails}
    \cup {[kind |-> "absolute", scheme |-> sc, host |-> h,
           href |-> sc \o SchemeSep \o h \o p \o t] :
             sc \in {Http, Https}, h \in {HostX, HostY}, p \in {<<>>, Port8}, t \in HrefTails}

\* configured base URLs: none, parsable ones, and one that does not parse
BaseInputs ==
    {[host |-> <<>>, url |-> NoneOpt],
     [host |-> <<>>, url |-> Some(HostX)],
     [host |-> HostX, url |-> Some(Https \o SchemeSep \o HostX)],
     [host |-> HostX, url |-> Some(Http \o SchemeSep \o HostX \o Slash)],
     [host |-> HostX, url |-> Some(Https \o SchemeSep \o HostX \o Port8)],
     [host |-> HostY, url |-> Some(Https \o SchemeSep \o HostY \o Slash)]}

IsInternalCalls == [fn : {"is_internal"}, href : HrefInputs, base : BaseInputs]

MaxFileChunks == 3

FileChunks == {<<"a">>, Slash, IndexHtmlName, IndexHtmName, HtmlExt, HtmExt, <<"\\">>}

RECURSIVE FileChunkStrings(_)
FileChunkStrings(n) ==
    IF n = 0 THEN {<<>>}
    ELSE LET shorter == FileChunkStrings(n - 1)
         IN  shorter \cup {s \o c : s \in shorter, c \in FileChunks}

\* relative file paths: chunk strings that name a file, and three paths of a site
FilePathInputs ==
    {f \in FileChunkStrings(MaxFileChunks) :
        f # <<>> /\ f[1] \notin {"/", "\\"} /\ f[Len(f)] \notin {"/", "\\"}}
    \cup {<<"a", "b", "o", "u", "t", "/", "i", "n", "d", "e", "x", ".", "h", "t", "m", "l">>,
          <<"b", "l", "o", "g", "/", "2", "0", "2", "4", "/", "m", "y", "-", "p", "o", "s", "t", ".", "h", "t", "m", "l">>}

FilePathCalls ==
    [fn : {"file_path_to_route"}, path : FilePathInputs, cfg : UrlNormalizationConfig]

\* hrefs, page routes and base URLs for resolve_href
ResolveHrefs ==
    {<<"b">>,
     <<".", ".", "/", "c", "o", "n", "t", "a", "c", "t">>,
     <<".", "/", "s", "i", "b", "l", "i", "n", "g">>,
     <<".", ".", "/", ".", ".", "/", "a", "b", "o", "u", "t">>,
     <<"s", "u", "b", "/", "p", "a", "g", "e">>,
     <<".", ".">>,
     <<".">>,
     <<"b", "?", "q">>,
     <<"b", "#", "f">>,
     <<".", ".", "/", "c", "?", "q", "#", "f">>,
     <<"#", "s", "e", "c", "t", "i", "o", "n">>,
     <<"?", "x", "=", "1">>,
     <<>>,
     <<"#", "f", "?", "q">>,
     <<"/", "a", "b", "o", "u", "t">>,
     <<"/", "a", "/", ".", ".", "/", "b">>,
     <<"/", "a", "?", "q">>,
     <<"/", ".", "/", "a", "#", "f">>,
     <<"/", "/", "x", "/", "a">>,
     <<"h", "t", "t", "p", "s", ":", "/", "/", "x", "/", "a">>,
     <<"m", "a", "i", "l", "t", "o", ":", "x">>}

ResolveRoutes ==
    {<<"/">>,
     <<"/", "b", "l", "o", "g", "/">>,
     <<"/", "b", "l", "o", "g", "/", "p", "o", "s", "t", "s", "/">>,
     <<"/", "b", "l", "o", "g", "/", "p", "o", "s", "t">>,
     <<"/", "a">>}

ResolveCalls ==
    [fn : {"resolve_href"}, href : ResolveHrefs, route : ResolveRoutes,
     base : {NoneOpt, Some(Https \o SchemeSep \o HostX)}]

EmptyDoc == [anchors |-> <<>>, ids |-> {}, hreflangs |-> <<>>, canonicals |-> <<>>, robots |-> <<>>]

NoSitemap == [exists |-> FALSE, readable |-> FALSE, events |-> <<>>]

NoExtra == [n \in SinglePageSuites |-> <<>>]

\* the files of a directory finishing extraction in discovery order
InOrder(n) == [i \in 1..n |-> i]

EmptyDist ==
    [is_dir |-> TRUE, files |-> <<>>, dirs |-> <<>>, finish |-> <<>>, sitemap |-> NoSitemap,
     extra |-> NoExtra]

\* the command line with no option given, and no config file found
DefaultCli ==
    [site |-> NoneOpt, strict |-> FALSE, max_errors |-> NoneOpt, include |-> {}, exclude |-> {},
     no_sitemap_check |-> FALSE, config |-> NoneOpt, discovered |-> NoneOpt]

\* no run: the library is called directly
Idle ==
    /\ dist = EmptyDist /\ config = DefaultConfig /\ cli = DefaultCli /\ index = EmptyIndex
    /\ findings = <<>> /\ error_count = 0 /\ suite = 0 /\ exit_code = None

NoCall == [fn |-> "none"]

\* the run as main() enters it
RunStart ==
    /\ pc = "start" /\ call = NoCall /\ ret = <<>>
    /\ config = DefaultConfig /\ index = EmptyIndex
    /\ findings = <<>> /\ error_count = 0 /\ suite = 0 /\ exit_code = None

InitLib ==
    /\ pc = "call"
    /\ call \in NormalizeCalls \cup IsInternalCalls \cup ResolveCalls \cup FilePathCalls \cup CollapseCalls
    /\ ret = <<>>
    /\ Idle

\* normalize_path(path, cfg), then normalize_path of its own result
CallNormalizePath ==
    /\ pc = "call"
    /\ call.fn = "normalize_path"
    /\ Len(ret) < 2
    /\ ret' = Append(ret, normalize_path(IF Len(ret) = 0 THEN call.path ELSE ret[Len(ret)], call.cfg))
    /\ UNCHANGED <<pc, call, dist, config, cli, index, findings, error_count, suite, exit_code>>

CallIsInternal ==
    /\ pc = "call"
    /\ call.fn = "is_internal"
    /\ ret = <<>>
    /\ ret' = <<is_internal(call.href.href, call.base.url)>>
    /\ UNCHANGED <<pc, call, dist, config, cli, index, findings, error_count, suite, exit_code>>

CallResolveHref ==
    /\ pc = "call"
    /\ call.fn = "resolve_href"
    /\ ret = <<>>
    /\ ret' = <<resolve_href(call.href, call.route, call.base)>>
    /\ UNCHANGED <<pc, call, dist, config, cli, index, findings, error_count, suite, exit_code>>

CallFilePathToRoute ==
    /\ pc = "call"
    /\ call.fn = "file_path_to_route"
    /\ ret = <<>>
    /\ ret' = <<file_path_to_route(call.path, call.cfg)>>
    /\ UNCHANGED <<pc, call, dist, config, cli, index, findings, error_count, suite, exit_code>>

CallCollapseDots ==
    /\ pc = "call"
    /\ call.fn = "collapse_dots"
    /\ ret = <<>>
    /\ ret' = <<collapse_dots(call.path)>>
    /\ UNCHANGED <<pc, call, dist, config, cli, index, findings, error_count, suite, exit_code>>

NextLib ==
    \/ CallNormalizePath \/ CallIsInternal \/ CallResolveHref \/ CallFilePathToRoute
    \/ CallCollapseDots

SpecLib == InitLib /\ [][NextLib]_vars

----------------------------------------------------------------------------
\* C1: normalize_path is idempotent: normalizing a normalized path again
\* under the same policy returns it unchanged.
C1_Idempotent ==
    (pc = "call" /\ call.fn = "normalize_path" /\ Len(ret) = 2) => ret[2] = ret[1]


\* C6: an href with neither "://" nor a leading "//" is internal; with a
\* base URL configured, a protocol-relative or absolute href is internal
\* exactly when its host is the base URL's host.
C6_InternalIffSameHost ==
    (pc = "call" /\ call.fn = "is_internal" /\ Len(ret) = 1) =>
        /\ call.href.kind = "relative" => ret[1] = TRUE
        /\ (call.href.kind # "relative" /\ call.base.host # <<>>) =>
              (ret[1] <=> call.href.host = call.base.host)


----------------------------------------------------------------------------
(* Sites for the link checks: the root page, /a/ and /b/, an asset in a    *)
(* directory that has no page, and at most MaxLinks anchors in the site.   *)

MaxLinks == 2

BaseX == Https \o SchemeSep \o HostX

RootFile == IndexHtmlName
AFile == <<"a", "/">> \o IndexHtmlName
BFile == <<"b">> \o HtmlExt
AssetFile == <<"d", "/", "c", ".", "p", "n", "g">>

LinkHrefs ==
    << Slash,                                   \* the root, or the build root itself
       <<"/", "a">>,                            \* /a/ without its slash
       <<"/", "b", "/">>,
       <<"/", "d", "/">>,                       \* a directory without a page
       <<"/", "z", "z">>,                       \* nothing there
       <<>>,                                    \* the page itself
       <<"b">>,                                 \* relative to the page
       BaseX \o <<"/", "a", "/">>,              \* absolute, same origin
       <<"/", "d", "/", "c", ".", "p", "n", "g">>,  \* an asset
       <<"#", "f">>,
       MailtoPrefix \o <<"x">> >>

LinkPageFiles == {<<RootFile, AFile, BFile>>, <<AFile, BFile>>}

\* non-decreasing sequences of at most n numbers of 1..k: multisets
Multisets(k, n) ==
    UNION {{m \in [1..len -> 1..k] : \A i \in 1..(len - 1) : m[i] <= m[i + 1]} : len \in 0..n}

\* anchor slot s of a site of np pages: page 1 + (s - 1) % np, href 1 + (s - 1) \div np
SlotPage(sl, np) == 1 + ((sl - 1) % np)
SlotHref(sl, np) == LinkHrefs[1 + ((sl - 1) \div np)]

LinkAnchors(slots, pg, np) ==
    LET mine == SelectSeq(slots, LAMBDA sl : SlotPage(sl, np) = pg)
    IN  [i \in 1..Len(mine) |-> SlotHref(mine[i], np)]

LinkDist(files, slots) ==
    [is_dir |-> TRUE,
     files |-> [i \in 1..Len(files) |->
                   [rel |-> files[i], readable |-> TRUE,
                    doc |-> [EmptyDoc EXCEPT !.anchors = LinkAnchors(slots, i, Len(files))]]]
               \o <<[rel |-> AssetFile, readable |-> TRUE, doc |-> EmptyDoc]>>,
     dirs |-> <<>>,
     finish |-> InOrder(Len(files) + 1),
     sitemap |-> NoSitemap,
     extra |-> NoExtra]

LinkDists ==
    UNION {{LinkDist(files, slots) : slots \in Multisets(Len(files) * Len(LinkHrefs), MaxLinks)} :
              files \in LinkPageFiles}

LinkConfigs ==
    {[DefaultConfig EXCEPT !.url_normalization = n, !.links.detect_orphan_pages = TRUE] :
        n \in UrlNormalizationConfig}

InitLinks ==
    /\ RunStart
    /\ dist \in LinkDists
    /\ cli \in {[DefaultCli EXCEPT !.site = Some(BaseX), !.config = Some([parses |-> TRUE, value |-> c])] :
                  c \in LinkConfigs}

NextLinks == LoadConfig \/ BuildIndex \/ CheckLinks

SpecLinks == InitLinks /\ [][NextLinks]_vars

PageRoutes == {index.pages[i].route : i \in 1..Len(index.pages)}

OrphanFindingsOf(page) ==
    Cardinality({i \in 1..Len(findings) :
        findings[i].rule_id = "links/orphan-page" /\ findings[i].file = page.rel_path})

\* C9: the root page never gets a links/orphan-page finding, whatever the
\* normalization policy and even when no page links to it.
C9_RootNeverOrphan ==
    pc = "checked" =>
        \A i \in 1..Len(index.pages) :
            index.pages[i].route = Slash => OrphanFindingsOf(index.pages[i]) = 0

\* a run where the root page has no inbound link and another page is reported
C9_Witness ==
    /\ pc = "checked"
    /\ \E i \in 1..Len(index.pages) : index.pages[i].route = Slash
    /\ \A i \in 1..Len(index.pages) : Slash \notin PageLinkedRoutes(index, config, index.pages[i])
    /\ \E i \in 1..Len(findings) : findings[i].rule_id = "links/orphan-page"


LinkedFromOther(i) ==
    \E j \in 1..Len(index.pages) :
        j # i /\ index.pages[i].route \in PageLinkedRoutes(index, config, index.pages[j])

\* C2: a page that is not the root and that no other page links to gets
\* exactly one links/orphan-page finding (its own links to itself do not
\* count); a page some other page links to gets none.
C2_OrphanIffNoInboundFromOthers ==
    (pc = "checked" /\ config.links.detect_orphan_pages) =>
        \A i \in 1..Len(index.pages) :
            /\ (index.pages[i].route # Slash /\ ~LinkedFromOther(i)) =>
                  OrphanFindingsOf(index.pages[i]) = 1
            /\ LinkedFromOther(i) => OrphanFindingsOf(index.pages[i]) = 0

\* the anchors the broken-link check looks at
CheckedAnchor(href) ==
    /\ is_internal(href, index.base_url)
    /\ ~StartsWith(href, Hash)
    /\ ~StartsWith(href, MailtoPrefix) /\ ~StartsWith(href, TelPrefix)
    /\ ~StartsWith(href, JavascriptPrefix)

\* a regular file of the build root at the resolved path
RegularFileAt(resolved) ==
    \E i \in 1..Len(dist.files) :
        /\ Components(dist.files[i].rel) = Components(resolved)
        /\ ~EndsWith(resolved, Slash)

BrokenFindingsOf(page, href) ==
    Cardinality({i \in 1..Len(findings) :
        /\ findings[i].rule_id = "links/broken"
        /\ findings[i].file = page.rel_path
        /\ findings[i].selector = AnchorSelector(href)})

AnchorsWith(page, href) ==
    Cardinality({k \in 1..Len(page.html_content.anchors) : page.html_content.anchors[k] = href})

\* C4: each internal anchor that is not fragment-only nor mailto:/tel:/
\* javascript: gets exactly one links/broken finding naming its href when
\* its normalized target is no route and its resolved path is no existing
\* file under the build root, and none when its target is a known route.
C4_BrokenIffNoRouteNoFile ==
    (pc = "checked" /\ config.links.check_internal) =>
        \A i \in 1..Len(index.pages) :
            \A href \in {h \in Range(index.pages[i].html_content.anchors) : CheckedAnchor(h)} :
                LET page == index.pages[i]
                    resolved == resolve_href(href, page.route, index.base_url)[1]
                    normalized == normalize_path(resolved, config.url_normalization)
                IN  /\ (normalized \notin PageRoutes /\ ~RegularFileAt(resolved)) =>
                          BrokenFindingsOf(page, href) = AnchorsWith(page, href)
                    /\ normalized \in PageRoutes => BrokenFindingsOf(page, href) = 0

----------------------------------------------------------------------------
(* Sites for the hreflang checks: pages /a/ and /b/ declaring at most      *)
(* MaxPairs alternate pairs between them.                                  *)

MaxPairs == 2

HFileA == <<"a", "/">> \o IndexHtmlName
HFileB == <<"b", "/">> \o IndexHtmlName

HreflangLangs == << <<"d", "e">>, XDefault >>

HreflangHrefs ==
    << BaseX \o <<"/", "a", "/">>,
       BaseX \o <<"/", "b", "/">>,
       BaseX \o <<"/", "b">>,
       Https \o SchemeSep \o HostY \o Slash >>

\* pair slot s: page 1 + (s - 1) % 2, then the language, then the href
PairPage(sl) == 1 + ((sl - 1) % 2)
PairLang(sl) == HreflangLangs[1 + (((sl - 1) \div 2) % Len(HreflangLangs))]
PairHref(sl) == HreflangHrefs[1 + ((sl - 1) \div (2 * Len(HreflangLangs)))]

HreflangPairs(slots, pg) ==
    LET mine == SelectSeq(slots, LAMBDA sl : PairPage(sl) = pg)
    IN  [i \in 1..Len(mine) |-> [lang |-> PairLang(mine[i]), href |-> PairHref(mine[i])]]

HreflangDist(slots) ==
    [is_dir |-> TRUE,
     files |-> <<[rel |-> HFileA, readable |-> TRUE,
                  doc |-> [EmptyDoc EXCEPT !.hreflangs = HreflangPairs(slots, 1)]],
                 [rel |-> HFileB, readable |-> TRUE,
                  doc |-> [EmptyDoc EXCEPT !.hreflangs = HreflangPairs(slots, 2)]]>>,
     dirs |-> <<>>,
     finish |-> InOrder(2),
     sitemap |-> NoSitemap,
     extra |-> NoExtra]

HreflangDists ==
    {HreflangDist(slots) :
        slots \in Multisets(2 * Len(HreflangLangs) * Len(HreflangHrefs), MaxPairs)}

HreflangConfigs ==
    {[DefaultConfig EXCEPT
        !.url_normalization = [trailing_slash |-> ts, index_html |-> "Forbid"],
        !.hreflang = [check_hreflang |-> TRUE, require_x_default |-> b,
                      require_self_reference |-> b, require_reciprocal |-> r]] :
        ts \in {"Always", "Never"}, b \in BOOLEAN, r \in BOOLEAN}

InitHreflang ==
    /\ RunStart
    /\ dist \in HreflangDists
    /\ cli \in {[DefaultCli EXCEPT !.site = site, !.config = Some([parses |-> TRUE, value |-> c])] :
                  site \in {NoneOpt, Some(BaseX)}, c \in HreflangConfigs}

NextHreflang == LoadConfig \/ BuildIndex \/ CheckHreflang

SpecHreflang == InitHreflang /\ [][NextHreflang]_vars

NoReciprocalFindingsOf(page, entry) ==
    Cardinality({i \in 1..Len(findings) :
        /\ findings[i].rule_id = "hreflang/no-reciprocal"
        /\ findings[i].file = page.rel_path
        /\ findings[i].selector = HreflangSelector(entry.lang, entry.href)})

PairsLike(page, entry) ==
    Cardinality({k \in 1..Len(page.html_content.hreflangs) : page.html_content.hreflangs[k] = entry})

\* page b does not point back at page a
NoPairBack(a, b) ==
    \A k \in 1..Len(b.html_content.hreflangs) :
        b.html_content.hreflangs[k].href # a.absolute_url[1]

\* C3: with require_reciprocal on, a non-x-default pair of page A whose href
\* is the absolute URL of page B, where no pair of B (B may declare none at
\* all) has A's absolute URL as href, gets exactly one hreflang/no-reciprocal
\* finding on A's file and none on B's file.
C3_NoReciprocalFlagged ==
    (pc = "checked" /\ config.hreflang.check_hreflang /\ config.hreflang.require_reciprocal) =>
        \A i, j \in 1..Len(index.pages) :
            LET a == index.pages[i]
                b == index.pages[j]
            IN  \A e \in Range(a.html_content.hreflangs) :
                    (/\ i # j
                     /\ e.lang # XDefault
                     /\ IsSome(a.absolute_url) /\ IsSome(b.absolute_url)
                     /\ e.href = b.absolute_url[1]
                     /\ NoPairBack(a, b)) =>
                        /\ NoReciprocalFindingsOf(a, e) = PairsLike(a, e)
                        /\ NoReciprocalFindingsOf(b, e) = 0

----------------------------------------------------------------------------
(* Sites for the sitemap checks: the root page with a canonical and a      *)
(* robots meta that vary, the page /a/ with its own canonical, and a       *)
(* sitemap.xml that is missing, unreadable, or a document of at most       *)
(* MaxLocs entries, one of which may be malformed.                         *)

MaxLocs == 2

UrlRoot == BaseX \o Slash
UrlA == BaseX \o <<"/", "a", "/">>
UrlAIndex == BaseX \o <<"/", "a", "/">> \o IndexHtmlName
UrlGone == BaseX \o <<"/", "g", "/">>

RootCanonicals == {<<>>, <<UrlRoot>>, <<UrlGone>>, <<<<"/", "a", "/">>>>}

RootRobots == {<<>>, <<<<"N", "O", "I", "N", "D", "E", "X">>>>}

\* what a <url> entry of the document holds: the text of a <loc>, or markup
\* the XML reader rejects
LocTexts ==
    {UrlRoot, <<" ">> \o UrlA \o <<" ">>, UrlAIndex, UrlGone, <<"/", "r", "e", "l">>}

\* a closing tag that matches no open element
Malformed == <<"<", "/", "o", "o", "p", "s", ">">>

SitemapEntries == LocTexts \cup {Malformed}

EntryEvents(e) ==
    IF e = Malformed
    THEN <<[t |-> "Start", name |-> "url"], [t |-> "Err"]>>
    ELSE <<[t |-> "Start", name |-> "url"], [t |-> "Start", name |-> LocName],
           [t |-> "Text", text |-> e], [t |-> "End", name |-> LocName],
           [t |-> "End", name |-> "url"]>>

SitemapDocument(entries) ==
    [exists |-> TRUE, readable |-> TRUE,
     events |-> <<[t |-> "Start", name |-> "urlset"]>>
                \o ConcatAll([i \in 1..Len(entries) |-> EntryEvents(entries[i])])
                \o <<[t |-> "End", name |-> "urlset"]>>]

SitemapFiles ==
    {NoSitemap, [exists |-> TRUE, readable |-> FALSE, events |-> <<>>]}
    \cup {SitemapDocument(entries) :
            entries \in UNION {[1..n -> SitemapEntries] : n \in 0..MaxLocs}}

SitemapDist(canonicals, robots, sitemap) ==
    [is_dir |-> TRUE,
     files |-> <<[rel |-> RootFile, readable |-> TRUE,
                  doc |-> [EmptyDoc EXCEPT !.canonicals = canonicals, !.robots = robots]],
                 [rel |-> AFile, readable |-> TRUE,
                  doc |-> [EmptyDoc EXCEPT !.canonicals = <<UrlA>>]]>>,
     dirs |-> <<>>,
     finish |-> InOrder(2),
     sitemap |-> sitemap,
     extra |-> NoExtra]

SitemapDists ==
    {SitemapDist(c, r, sm) : c \in RootCanonicals, r \in RootRobots, sm \in SitemapFiles}

SitemapToggles ==
    {[require |-> FALSE, canonical_must_be_in_sitemap |-> TRUE,
      forbid_noncanonical_in_sitemap |-> FALSE, entries_must_exist_in_dist |-> TRUE],
     [require |-> TRUE, canonical_must_be_in_sitemap |-> TRUE,
      forbid_noncanonical_in_sitemap |-> TRUE, entries_must_exist_in_dist |-> TRUE],
     [require |-> FALSE, canonical_must_be_in_sitemap |-> FALSE,
      forbid_noncanonical_in_sitemap |-> FALSE, entries_must_exist_in_dist |-> TRUE],
     [require |-> FALSE, canonical_must_be_in_sitemap |-> TRUE,
      forbid_noncanonical_in_sitemap |-> FALSE, entries_must_exist_in_dist |-> FALSE]}

SitemapConfigs ==
    {[DefaultConfig EXCEPT !.url_normalization = n, !.sitemap = t] :
        n \in {[trailing_slash |-> "Always", index_html |-> "Forbid"],
               [trailing_slash |-> "Never", index_html |-> "Forbid"],
               [trailing_slash |-> "Ignore", index_html |-> "Allow"]},
        t \in SitemapToggles}

InitSitemap ==
    /\ RunStart
    /\ dist \in SitemapDists
    /\ cli \in {[DefaultCli EXCEPT !.site = Some(BaseX), !.config = Some([parses |-> TRUE, value |-> c])] :
                  c \in SitemapConfigs}

NextSitemap == LoadConfig \/ BuildIndex \/ CheckSitemap

SpecSitemap == InitSitemap /\ [][NextSitemap]_vars

CanonicalMissingOf(page) ==
    Cardinality({i \in 1..Len(findings) :
        /\ findings[i].rule_id = "sitemap/canonical-missing"
        /\ findings[i].file = page.rel_path})

\* the page declares a canonical that the normalized sitemap set lacks
CanonicalNotListed(page) ==
    /\ IsSome(page.canonical)
    /\ NormalizedCanonical(page.canonical[1], config) \notin NormalizedSitemap(index, config)

\* C7 as stated: with canonical_must_be_in_sitemap on, every indexable page
\* whose declared canonical, normalized, is not in the normalized sitemap
\* URL set gets exactly one sitemap/canonical-missing finding, and a noindex
\* page gets none.
C7_CanonicalMissingAlways ==
    (pc = "checked" /\ config.sitemap.canonical_must_be_in_sitemap) =>
        \A i \in 1..Len(index.pages) :
            /\ (~index.pages[i].noindex /\ CanonicalNotListed(index.pages[i])) =>
                  CanonicalMissingOf(index.pages[i]) = 1
            /\ index.pages[i].noindex => CanonicalMissingOf(index.pages[i]) = 0

\* C7: with canonical_must_be_in_sitemap on, and sitemap.xml present and
\* having yielded at least one URL, every indexable page whose declared
\* canonical, normalized, is not in the normalized sitemap URL set gets
\* exactly one sitemap/canonical-missing finding, and a noindex page gets
\* none.
C7_CanonicalMissingWhenSitemapRead ==
    (/\ pc = "checked"
     /\ config.sitemap.canonical_must_be_in_sitemap
     /\ dist.sitemap.exists
     /\ index.sitemap_urls # {}) =>
        \A i \in 1..Len(index.pages) :
            /\ (~index.pages[i].noindex /\ CanonicalNotListed(index.pages[i])) =>
                  CanonicalMissingOf(index.pages[i]) = 1
            /\ index.pages[i].noindex => CanonicalMissingOf(index.pages[i]) = 0

\* a sitemap that was read, an indexable page reported for its canonical and
\* a noindex page whose canonical is not listed either
C7_Witness ==
    /\ pc = "checked"
    /\ config.sitemap.canonical_must_be_in_sitemap
    /\ index.sitemap_urls # {}
    /\ \E i \in 1..Len(index.pages) :
          ~index.pages[i].noindex /\ CanonicalMissingOf(index.pages[i]) = 1
    /\ \E i \in 1..Len(index.pages) :
          index.pages[i].noindex /\ CanonicalNotListed(index.pages[i])

EntryNotInDistOf(u) ==
    Cardinality({i \in 1..Len(findings) :
        /\ findings[i].rule_id = "sitemap/entry-not-in-dist"
        /\ findings[i].selector = LocSelector(u)})

\* the sitemap URLs that are URLs: the ones that have a path
SitemapUrlsWithPath == {u \in index.sitemap_urls : IsSome(UrlParse(u))}

SitemapUrlRoute(u) == normalize_path(UrlParse(u)[1].path, config.url_normalization)

\* C8: with entries_must_exist_in_dist on, every distinct sitemap URL whose
\* normalized path is not a route of the index gets exactly one
\* sitemap/entry-not-in-dist finding, and one whose normalized path is a
\* known route gets none.
C8_EntryNotInDist ==
    (pc = "checked" /\ config.sitemap.entries_must_exist_in_dist) =>
        \A u \in SitemapUrlsWithPath :
            EntryNotInDistOf(u) = IF SitemapUrlRoute(u) \in PageRoutes THEN 0 ELSE 1

\* a sitemap with a stale entry, reported, and an entry that only matches a
\* route once its path is normalized
C8_Witness ==
    /\ pc = "checked"
    /\ config.sitemap.entries_must_exist_in_dist
    /\ \E u \in SitemapUrlsWithPath : SitemapUrlRoute(u) \notin PageRoutes /\ EntryNotInDistOf(u) = 1
    /\ \E u \in SitemapUrlsWithPath :
          /\ UrlParse(u)[1].path \notin PageRoutes
          /\ SitemapUrlRoute(u) \in PageRoutes
          /\ EntryNotInDistOf(u) = 0

\* sitemap.xml is missing, cannot be read, or has malformed XML in it
SitemapUnusable ==
    \/ ~dist.sitemap.exists
    \/ ~dist.sitemap.readable
    \/ \E k \in 1..Len(dist.sitemap.events) : dist.sitemap.events[k].t = "Err"

\* C10: a sitemap that is missing or whose XML is malformed yields the empty
\* URL set, no <loc> read before the malformed point being kept, and the
\* index is built all the same.
C10_UnusableSitemapYieldsEmptySet ==
    (pc \in {"checks", "checked"} /\ SitemapUnusable) => index.sitemap_urls = {}

----------------------------------------------------------------------------
(* Whole runs: sites of one or two pages whose canonical may be missing,   *)
(* an anchor that may be broken, a sitemap with a stale entry, findings of *)
(* two single-page suites, and the command line with --max-errors up to    *)
(* MaxBudget, --strict, --no-sitemap-check and the globs.                  *)

MaxBudget == 2

BrokenHref == <<"/", "z", "z">>

RunPage(rel, canonicals, anchors) ==
    [rel |-> rel, readable |-> TRUE,
     doc |-> [EmptyDoc EXCEPT !.canonicals = canonicals, !.anchors = anchors]]

RunPageSets ==
    {<<RunPage(RootFile, c, a)>> : c \in {<<>>, <<UrlRoot>>}, a \in {<<>>, <<BrokenHref>>}}
    \cup {<<RunPage(RootFile, c, a), RunPage(AFile, ca, <<>>)>> :
            c \in {<<>>, <<UrlRoot>>}, a \in {<<>>, <<BrokenHref>>}, ca \in {<<>>, <<UrlA>>}}

RunExtras ==
    {[NoExtra EXCEPT !.a11y = x, !.security = y] :
        x \in {<<>>, <<"Error">>, <<"Warning", "Info">>}, y \in {<<>>, <<"Error">>}}

RunDists ==
    {[is_dir |-> TRUE, files |-> pages, dirs |-> <<>>, finish |-> InOrder(Len(pages)),
      sitemap |-> SitemapDocument(<<UrlGone>>), extra |-> e] :
        pages \in RunPageSets, e \in RunExtras}

RunClis ==
    {[DefaultCli EXCEPT !.site = Some(BaseX), !.max_errors = m, !.strict = st,
                        !.no_sitemap_check = ns] :
        m \in {NoneOpt} \cup {Some(n) : n \in 0..MaxBudget}, st \in BOOLEAN, ns \in BOOLEAN}

\* runs that differ from the plain one in the globs or in where the
\* configuration comes from; the last three end in a fatal error
OtherClis ==
    {[DefaultCli EXCEPT !.exclude = {[valid |-> TRUE, matches |-> {AFile}]}],
     [DefaultCli EXCEPT !.include = {[valid |-> TRUE, matches |-> {AFile}]}],
     [DefaultCli EXCEPT !.discovered = Some([DefaultConfig EXCEPT !.links.fail_on_broken = FALSE])],
     [DefaultCli EXCEPT !.config = Some([parses |-> TRUE,
                                        value |-> [DefaultConfig EXCEPT !.canonical.require = FALSE]])],
     [DefaultCli EXCEPT !.config = Some([parses |-> FALSE, value |-> DefaultConfig])],
     [DefaultCli EXCEPT !.include = {[valid |-> FALSE, matches |-> {}]}],
     [DefaultCli EXCEPT !.exclude = {[valid |-> FALSE, matches |-> {}]}]}

InitRun ==
    /\ RunStart
    /\ \/ dist \in RunDists /\ cli \in RunClis
       \/ /\ dist \in {d \in RunDists : d.extra = NoExtra}
          /\ cli \in OtherClis
       \/ /\ dist \in {[d EXCEPT !.is_dir = FALSE, !.files = <<>>, !.finish = <<>>, !.sitemap = NoSitemap] :
                          d \in {e \in RunDists : e.extra = NoExtra /\ Len(e.files) = 1}}
          /\ cli = DefaultCli

SpecRun == InitRun /\ [][NextRun]_vars

\* C5: a run given --max-errors N reports at most N findings in all.
C5_FindingsAtMostMaxErrors ==
    (pc = "done" /\ IsSome(cli.max_errors)) => Len(findings) <= cli.max_errors[1]

----------------------------------------------------------------------------
(* Build outputs for discovery: at most MaxFiles files in any discovery    *)
(* order, some of them of the same route, one that cannot be read, one     *)
(* that is no HTML file, a directory named like an HTML file, extraction   *)
(* tasks finishing in any order, and include/exclude globs.                *)

MaxFiles == 2

AHtml == <<"a">> \o HtmlExt
AHtm == <<"a">> \o HtmExt
BHtml == <<"b">> \o HtmlExt
CPng == <<"c", ".", "p", "n", "g">>
DHtmlDir == <<"d">> \o HtmlExt

DiscoveryFiles ==
    {[rel |-> r, readable |-> TRUE, doc |-> EmptyDoc] : r \in {AHtml, AFile, AHtm, RootFile, CPng}}
    \cup {[rel |-> BHtml, readable |-> FALSE, doc |-> EmptyDoc]}

\* the sequences without repetition of at most n elements of S
Arrangements(S, n) ==
    UNION {{f \in [1..len -> S] : \A i, j \in 1..len : i # j => f[i] # f[j]} : len \in 0..n}

DiscoveryDists ==
    {[is_dir |-> TRUE, files |-> fs, dirs |-> <<DHtmlDir>>, finish |-> fin,
      sitemap |-> NoSitemap, extra |-> NoExtra] :
        fs \in Arrangements(DiscoveryFiles, MaxFiles),
        fin \in Arrangements(1..MaxFiles, MaxFiles)}

\* a*  and  **/*.html  and  *.htm
GlobA == [valid |-> TRUE, matches |-> {AHtml, AFile, AHtm}]
GlobHtml == [valid |-> TRUE, matches |-> {AHtml, AFile, RootFile, BHtml, DHtmlDir}]
GlobHtm == [valid |-> TRUE, matches |-> {AHtm}]

DiscoveryGlobs ==
    {[include |-> {}, exclude |-> {}],
     [include |-> {GlobHtml}, exclude |-> {}],
     [include |-> {}, exclude |-> {GlobA}],
     [include |-> {GlobA, GlobHtm}, exclude |-> {GlobHtm}]}

DiscoveryConfigs ==
    {[DefaultConfig EXCEPT !.url_normalization = n] :
        n \in {[trailing_slash |-> "Always", index_html |-> "Forbid"],
               [trailing_slash |-> "Never", index_html |-> "Allow"]}}

InitDiscovery ==
    /\ RunStart
    /\ dist \in {d \in DiscoveryDists : Range(d.finish) = 1..Len(d.files)}
    /\ cli \in {[DefaultCli EXCEPT !.include = g.include, !.exclude = g.exclude,
                                   !.config = Some([parses |-> TRUE, value |-> c])] :
                  g \in DiscoveryGlobs, c \in DiscoveryConfigs}

SpecDiscovery == InitDiscovery /\ [][NextRun]_vars

IndexBuilt == pc \in {"checks", "report", "done"}

\* the place in discovery order of the file a page was made from
PlaceOf(page) == CHOOSE i \in 1..Len(dist.files) : dist.files[i].rel = page.rel_path

\* files i and j are both pages and have the same route
SameRoutePages(i, j) ==
    /\ i < j
    /\ \E x, y \in 1..Len(index.pages) :
          /\ index.pages[x].rel_path = dist.files[i].rel
          /\ index.pages[y].rel_path = dist.files[j].rel
          /\ index.pages[x].route = index.pages[y].route

\* C11: when two discovered files have the same route the index is built
\* all the same, both pages are kept, and route_to_index maps the route to
\* the page later in discovery order, whatever the order in which the
\* extraction tasks finish; every key r of route_to_index maps to a page of
\* route r, and route_exists(r) holds exactly of the routes of the pages.
C11_LaterFileWinsRoute ==
    /\ pc # "fatal"
    /\ IndexBuilt =>
          /\ \A r \in DOMAIN index.route_to_index :
                /\ index.route_to_index[r] \in 1..Len(index.pages)
                /\ index.pages[index.route_to_index[r]].route = r
                /\ \A x \in 1..Len(index.pages) :
                      index.pages[x].route = r =>
                          PlaceOf(index.pages[x]) <= PlaceOf(index.pages[index.route_to_index[r]])
          /\ \A x \in 1..Len(index.pages) : route_exists(index, index.pages[x].route)
          /\ \A r \in {Slash, <<"/", "a">>, <<"/", "a", "/">>, <<"/", "b", "/">>, <<"/", "c", "/">>} :
                route_exists(index, r) <=> \E x \in 1..Len(index.pages) : index.pages[x].route = r
          /\ \A i, j \in 1..Len(dist.files) :
                (/\ i # j
                 /\ \A k \in {i, j} :
                       /\ dist.files[k].readable
                       /\ IsDiscovered([rel |-> dist.files[k].rel, is_file |-> TRUE, at |-> k],
                                       cli.include, cli.exclude)) =>
                    \E x, y \in 1..Len(index.pages) :
                        /\ x # y
                        /\ index.pages[x].rel_path = dist.files[i].rel
                        /\ index.pages[y].rel_path = dist.files[j].rel

\* two files of one route whose extraction finished in the reverse order
C11_Witness ==
    /\ IndexBuilt
    /\ \E i, j \in 1..Len(dist.files) : SameRoutePages(i, j)
    /\ dist.finish # InOrder(Len(dist.files))

\* what makes a run abort: the dist path is no directory, a glob is invalid,
\* or the configuration file named on the command line cannot be loaded
FatalCondition ==
    \/ ~dist.is_dir
    \/ \E g \in cli.include \cup cli.exclude : ~g.valid
    \/ IsSome(cli.config) /\ ~cli.config[1].parses

LevelCount(level) == Cardinality({i \in 1..Len(findings) : findings[i].level = level})

\* C12: a run that completes exits with 1 if its report holds an Error, or a
\* Warning under --strict, and with 0 otherwise; a run exits with 2, and
\* prints no report, exactly when it aborts on a fatal condition.
C12_ExitCode ==
    /\ pc = "done" =>
          /\ ~FatalCondition
          /\ Len(ret) = 1 /\ ret[1].findings = findings
          /\ exit_code = IF LevelCount("Error") > 0 \/ (cli.strict /\ LevelCount("Warning") > 0)
                         THEN 1 ELSE 0
    /\ pc = "fatal" => FatalCondition /\ ret = <<>> /\ exit_code = 2
    /\ FatalCondition => pc \in {"start", "configured", "fatal"}

\* a completed run with warnings only and no --strict, exit code 0
C12_Witness ==
    /\ pc = "done"
    /\ ~cli.strict
    /\ LevelCount("Error") = 0 /\ LevelCount("Warning") > 0
    /\ exit_code = 0

\* the paths under the build root: of the regular files, and of all entries
RegularFilePaths == {dist.files[i].rel : i \in 1..Len(dist.files)}

EntryPaths == RegularFilePaths \cup {dist.dirs[i] : i \in 1..Len(dist.dirs)}

PagePaths == {index.pages[i].rel_path : i \in 1..Len(index.pages)}

\* a regular file with extension html or htm that the include patterns
\* accept (or there are none) and no exclude pattern matches
PassesFilters(rel) ==
    /\ rel \in RegularFilePaths
    /\ EndsWith(rel, HtmlExt) \/ EndsWith(rel, HtmExt)
    /\ cli.include = {} \/ \E g \in cli.include : rel \in g.matches
    /\ \A g \in cli.exclude : rel \notin g.matches

CanBeRead(rel) == \E i \in 1..Len(dist.files) : dist.files[i].rel = rel /\ dist.files[i].readable

FindingsAgainst(rel) == {i \in 1..Len(findings) : findings[i].file = rel}

----------------------------------------------------------------------------
(* Claims about resolve_href.                                              *)

Resolved == pc = "call" /\ call.fn = "resolve_href" /\ Len(ret) = 1

\* r up to and including its final '/'
DirOf(r) == SubSeq(r, 1, RFind(r, Slash))

\* the href without its fragment and without its query
Remainder(h) ==
    LET cut == {i \in 1..Len(h) : h[i] \in {"#", "?"}}
    IN  IF cut = {} THEN h ELSE SubSeq(h, 1, (CHOOSE i \in cut : \A j \in cut : i <= j) - 1)

RelativeHref(h) == ~Contains(h, SchemeSep) /\ ~StartsWith(h, Slash)

ResolvedIs(h, r, result) == call.href = h /\ call.route = r => ret[1] = Some(result)

ResolveExamples ==
    /\ ResolvedIs(<<".", ".", "/", "c", "o", "n", "t", "a", "c", "t">>, <<"/", "b", "l", "o", "g", "/", "p", "o", "s", "t", "s", "/">>, <<"/", "b", "l", "o", "g", "/", "c", "o", "n", "t", "a", "c", "t">>)
    /\ ResolvedIs(<<".", "/", "s", "i", "b", "l", "i", "n", "g">>, <<"/", "b", "l", "o", "g", "/", "p", "o", "s", "t", "s", "/">>, <<"/", "b", "l", "o", "g", "/", "p", "o", "s", "t", "s", "/", "s", "i", "b", "l", "i", "n", "g">>)
    /\ ResolvedIs(<<"/", "a", "/", ".", ".", "/", "b">>, <<"/", "b", "l", "o", "g", "/">>, <<"/", "b">>)

C15_EmptyRemainderIsOwnRoute ==
    (Resolved /\ Remainder(call.href) = <<>>) => ret[1] = Some(call.route)

\* "#section" resolved on a route that does not end with a slash
C15_Witness ==
    /\ Resolved
    /\ call.href = <<"#", "s", "e", "c", "t", "i", "o", "n">> /\ call.route = <<"/", "b", "l", "o", "g", "/", "p", "o", "s", "t">>
    /\ ret[1] = Some(call.route)

----------------------------------------------------------------------------
(* Claims about normalize_path and file_path_to_route.                     *)

\* normalize_path was applied to call.path and ret[1] is its result
Normalized == pc = "call" /\ call.fn = "normalize_path" /\ Len(ret) >= 1

\* C16: normalize_path returns "/" unchanged; under Always every result ends
\* with '/'; under Never no result but "/" ends with '/'; under Ignore the
\* result is the dot-collapsed, index-stripped path with its trailing slash
\* as it was.
C16_TrailingSlashPolicy ==
    Normalized =>
        /\ call.path = Slash => ret[1] = Slash
        /\ call.cfg.trailing_slash = "Always" => EndsWith(ret[1], Slash)
        /\ call.cfg.trailing_slash = "Never" => (ret[1] = Slash \/ ~EndsWith(ret[1], Slash))
        /\ call.cfg.trailing_slash = "Ignore" => ret[1] = StripIndex(collapse_dots(call.path), call.cfg)

\* a path ending in two slashes normalized under Never
C16_Witness ==
    /\ Normalized
    /\ call.cfg.trailing_slash = "Never"
    /\ EndsWith(call.path, Slash \o Slash)
    /\ Len(ret[1]) > 0 /\ ~EndsWith(ret[1], Slash)

\* C17: with index_html = Forbid no result of normalize_path ends in
\* "/index.html" or "/index.htm", and the bare index paths become "/"; with
\* index_html = Allow the index file name is kept.
C17_IndexStripped ==
    Normalized =>
        /\ call.cfg.index_html = "Forbid" =>
              /\ ~EndsWith(ret[1], Slash \o IndexHtmlName)
              /\ ~EndsWith(ret[1], Slash \o IndexHtmName)
              /\ call.path \in {IndexHtmlName, Slash \o IndexHtmlName,
                                IndexHtmName, Slash \o IndexHtmName} => ret[1] = Slash
        /\ call.cfg.index_html = "Allow" =>
              ret[1] = EnforceTrailingSlash(collapse_dots(call.path), call.cfg)

\* the route the claim gives a file: '/' and the path with '/' for '\', less
\* a trailing index file name or else a trailing extension
RouteBeforeNormalizing(f) ==
    LET r == Slash \o [i \in 1..Len(f) |-> IF f[i] = "\\" THEN "/" ELSE f[i]]
        Less(suffix) == SubSeq(r, 1, Len(r) - Len(suffix))
    IN  IF EndsWith(r, Slash \o IndexHtmlName) THEN Less(IndexHtmlName)
        ELSE IF EndsWith(r, Slash \o IndexHtmName) THEN Less(IndexHtmName)
        ELSE IF EndsWith(r, HtmlExt) THEN Less(HtmlExt)
        ELSE IF EndsWith(r, HtmExt) THEN Less(HtmExt)
        ELSE r

RouteIs(f, route) ==
    (call.path = f /\ call.cfg = [trailing_slash |-> "Always", index_html |-> "Forbid"]) =>
        ret[1] = route

\* C18: file_path_to_route(f, c) is normalize_path(r, c) for r the path f
\* after '/', with '/' for '\' and without its trailing index file name or
\* else its trailing extension, under every policy.
C18_FileRoute ==
    (pc = "call" /\ call.fn = "file_path_to_route" /\ Len(ret) = 1) =>
        /\ ret[1] = normalize_path(RouteBeforeNormalizing(call.path), call.cfg)
        /\ RouteIs(IndexHtmlName, Slash)
        /\ RouteIs(<<"a", "b", "o", "u", "t", "/", "i", "n", "d", "e", "x", ".", "h", "t", "m", "l">>, <<"/", "a", "b", "o", "u", "t", "/">>)
        /\ RouteIs(<<"b", "l", "o", "g", "/", "2", "0", "2", "4", "/", "m", "y", "-", "p", "o", "s", "t", ".", "h", "t", "m", "l">>, <<"/", "b", "l", "o", "g", "/", "2", "0", "2", "4", "/", "m", "y", "-", "p", "o", "s", "t", "/">>)

----------------------------------------------------------------------------
(* Runs for the toggles: a build output where every toggled check has      *)
(* something to report (a page without canonical, a broken link, a link    *)
(* with a query, an http link, an unlinked page, hreflang pairs without     *)
(* x-default, a sitemap that is missing or lists a stale URL), under every  *)
(* combination of the toggles and of --no-sitemap-check.                    *)

HttpBaseX == Http \o SchemeSep \o HostX

ToggleAnchors == <<BrokenHref, <<"/", "a", "/", "?", "q">>, HttpBaseX \o <<"/", "a", "/">>>>

ToggleDists ==
    {[is_dir |-> TRUE,
      files |-> <<[rel |-> RootFile, readable |-> TRUE,
                   doc |-> [EmptyDoc EXCEPT !.anchors = ToggleAnchors,
                                            !.hreflangs = <<[lang |-> <<"e", "n">>,
                                                             href |-> HttpBaseX \o Slash]>>]],
                  [rel |-> AFile, readable |-> TRUE,
                   doc |-> [EmptyDoc EXCEPT !.canonicals = <<HttpBaseX \o <<"/", "a", "/">>>>]],
                  [rel |-> BFile, readable |-> TRUE, doc |-> EmptyDoc]>>,
      dirs |-> <<>>,
      finish |-> InOrder(3),
      sitemap |-> sm,
      extra |-> NoExtra] :
        sm \in {NoSitemap, SitemapDocument(<<HttpBaseX \o <<"/", "g", "/">>>>)}}

ToggleConfigs ==
    {[DefaultConfig EXCEPT !.site.base_url = Some(HttpBaseX),
                           !.canonical.require = cr,
                           !.links.check_internal = ci,
                           !.links.detect_orphan_pages = op,
                           !.hreflang.check_hreflang = hl,
                           !.hreflang.require_x_default = TRUE,
                           !.sitemap.require = sr] :
        cr \in BOOLEAN, ci \in BOOLEAN, op \in BOOLEAN, hl \in BOOLEAN, sr \in BOOLEAN}

ToggleClis ==
    {[DefaultCli EXCEPT !.discovered = Some(c), !.no_sitemap_check = ns] :
        c \in ToggleConfigs, ns \in BOOLEAN}

InitToggles ==
    /\ RunStart
    /\ dist \in ToggleDists
    /\ cli \in ToggleClis

SpecToggles == InitToggles /\ [][NextRun]_vars

SitemapRules ==
    {"sitemap/missing", "sitemap/canonical-missing", "sitemap/entry-not-in-dist",
     "sitemap/non-canonical-entry"}

InternalLinkRules == {"links/broken", "links/query-params", "links/mixed-content"}

HreflangRules == {"hreflang/no-x-default", "hreflang/no-self-reference", "hreflang/no-reciprocal"}

CanonicalRules ==
    {"canonical/missing", "canonical/multiple", "canonical/empty", "canonical/not-absolute",
     "canonical/cross-origin", "canonical/not-self", "canonical/target-missing"}

NoFindingOf(rules) == \A i \in 1..Len(findings) : findings[i].rule_id \notin rules

\* the configuration of the run, once loaded
Configured == pc \notin {"start", "fatal"}

\* C19: a check that is toggled off reports nothing: no sitemap/* finding
\* under --no-sitemap-check whatever sitemap.require says; no links/broken,
\* links/query-params or links/mixed-content finding when
\* links.check_internal is false; no links/orphan-page finding when
\* links.detect_orphan_pages is false; no hreflang/* finding when
\* hreflang.check_hreflang is false; no canonical/* finding when
\* canonical.require is false.
C19_ToggledOffReportsNothing ==
    /\ cli.no_sitemap_check => NoFindingOf(SitemapRules)
    /\ Configured =>
          /\ ~config.links.check_internal => NoFindingOf(InternalLinkRules)
          /\ ~config.links.detect_orphan_pages => NoFindingOf({"links/orphan-page"})
          /\ ~config.hreflang.check_hreflang => NoFindingOf(HreflangRules)
          /\ ~config.canonical.require => NoFindingOf(CanonicalRules)

\* a finished run with every toggle off and sitemap.require set in the
\* file, over an output where each of the checks has something to report
C19_Witness ==
    /\ pc = "done"
    /\ cli.no_sitemap_check /\ cli.discovered[1].sitemap.require /\ ~dist.sitemap.exists
    /\ ~config.links.check_internal /\ ~config.links.detect_orphan_pages
    /\ ~config.hreflang.check_hreflang /\ ~config.canonical.require
    /\ \A rules \in {InternalLinkRules, {"links/orphan-page"}, HreflangRules, CanonicalRules,
                     SitemapRules} :
          LET on == [cli.discovered[1] EXCEPT !.links.check_internal = TRUE,
                                              !.links.detect_orphan_pages = TRUE,
                                              !.hreflang.check_hreflang = TRUE,
                                              !.canonical.require = TRUE]
              all == seo_check_all(index, on) \o links_check_all(dist, index, on)
                     \o sitemap_check_all(dist, index, on) \o hreflang_check_all(index, on)
          IN  \E i \in 1..Len(all) : all[i].rule_id \in rules
    /\ NoFindingOf(InternalLinkRules \cup {"links/orphan-page"} \cup HreflangRules
                   \cup CanonicalRules \cup SitemapRules)

----------------------------------------------------------------------------
(* Early exit.                                                             *)

\* what the i-th suite reports when it runs; nothing for the sitemap suite
\* under --no-sitemap-check
Contribution(i) ==
    IF SuiteNames[i] = "sitemap" /\ cli.no_sitemap_check THEN <<>>
    ELSE SuiteFindings(SuiteNames[i], dist, index, config)

\* C20: the suites run in the fixed order and each contributes all of its
\* findings or none: the findings are those of the first j suites, for some
\* j, and none of a later one; a suite past j that had findings to report
\* was skipped with the error count above the budget.
C20_SuiteGranularEarlyExit ==
    pc \in {"checks", "report", "done"} =>
        \E j \in 0..(suite - 1) :
            /\ findings = ConcatAll([i \in 1..j |-> Contribution(i)])
            /\ (\E i \in (j + 1)..(suite - 1) : Contribution(i) # <<>>) =>
                  (IsSome(cli.max_errors) /\ ErrorsIn(findings) > cli.max_errors[1])

----------------------------------------------------------------------------
(* The index during a run.                                                 *)

\* C21: the SiteIndex is built once, whole (every extraction task joined),
\* in the step that precedes the first suite, and no other step of the run,
\* no suite in particular, changes it.
C21_IndexBuiltOnceThenFrozen ==
    [][/\ (pc = "configured" /\ pc' = "checks") =>
             index' = SiteIndexBuild(dist, config, cli.include, cli.exclude)
       /\ pc # "configured" => index' = index]_vars

\* every suite has run over an index of two pages whose extraction tasks
\* finished in the reverse of discovery order
C21_Witness ==
    /\ pc = "report"
    /\ suite = Len(SuiteNames) + 1
    /\ Len(index.pages) = 2
    /\ dist.finish = <<2, 1>>
    /\ findings # <<>>

----------------------------------------------------------------------------
(* check_orphan_pages step by step: pass 1 is one task per page, each      *)
(* returning its own set of linked routes, the tasks finishing in any      *)
(* order; collect() joins them; pass 2 merges the sets and tests the pages. *)
(* ret holds per_page_routes, one slot per page, empty until the page's    *)
(* task has returned.                                                      *)

NoResults(idx) == [i \in 1..Len(idx.pages) |-> NoneOpt]

\* a join that lets pass 2 start once some task has returned
AllJoined_Any(results) == \E i \in 1..Len(results) : IsSome(results[i])

\* collect(): every task has returned
AllJoined(results) == \A i \in 1..Len(results) : IsSome(results[i])

\* pass 2 over the collected per-page sets
OrphanPass2(idx, results) ==
    LET linked_routes ==
            {Slash} \cup UNION {results[i][1] : i \in {k \in 1..Len(results) : IsSome(results[k])}}
        orphans == SelectSeq(idx.pages, LAMBDA page : page.route \notin linked_routes)
    IN  [i \in 1..Len(orphans) |->
            Finding("Warning", "links/orphan-page", orphans[i].rel_path, <<>>)]

StartOrphanPass1 ==
    /\ pc = "checks"
    /\ config.links.detect_orphan_pages
    /\ pc' = "pass1"
    /\ call' = [fn |-> "check_orphan_pages"]
    /\ ret' = NoResults(index)
    /\ UNCHANGED <<dist, config, cli, index, findings, error_count, suite, exit_code>>

\* the task of one page returns its set
OrphanTask ==
    /\ pc = "pass1"
    /\ \E i \in 1..Len(ret) :
          /\ ~IsSome(ret[i])
          /\ ret' = [ret EXCEPT ![i] = Some(PageLinkedRoutes(index, config, index.pages[i]))]
    /\ UNCHANGED <<pc, call, dist, config, cli, index, findings, error_count, suite, exit_code>>

OrphanJoin ==
    /\ pc = "pass1"
    /\ AllJoined(ret)
    /\ findings' = findings \o OrphanPass2(index, ret)
    /\ pc' = "checked"
    /\ UNCHANGED <<call, ret, dist, config, cli, index, error_count, suite, exit_code>>

OrphanDists ==
    {LinkDist(<<RootFile, AFile, BFile>>, slots) :
        slots \in Multisets(3 * Len(LinkHrefs), MaxLinks)}

InitOrphan ==
    /\ RunStart
    /\ dist \in OrphanDists
    /\ cli = [DefaultCli EXCEPT !.site = Some(BaseX),
                                !.discovered = Some([DefaultConfig EXCEPT
                                                        !.links.detect_orphan_pages = TRUE])]

NextOrphan == LoadConfig \/ BuildIndex \/ StartOrphanPass1 \/ OrphanTask \/ OrphanJoin

SpecOrphan == InitOrphan /\ [][NextOrphan]_vars

\* C22: pass 2 of the orphan check starts only when every pass-1 task has
\* returned; a pass-1 task fills the slot of its own page and no other; and
\* the orphan findings are those of the pages as indexed, whatever order the
\* tasks returned in.
C22_OrphanMapThenReduce ==
    [][/\ (pc = "pass1" /\ pc' = "checked") => \A i \in 1..Len(ret) : IsSome(ret[i])
       /\ (pc = "pass1" /\ pc' = "pass1") =>
             \E i \in 1..Len(ret) :
                 /\ ~IsSome(ret[i]) /\ IsSome(ret'[i])
                 /\ \A j \in 1..Len(ret) \ {i} : ret'[j] = ret[j]
       /\ pc' = "checked" => findings' = check_orphan_pages(index, config)]_vars

\* the task of the third page has returned a route before the task of the
\* first page, in a site with an orphan page
C22_Witness ==
    /\ pc = "pass1"
    /\ IsSome(ret[3]) /\ ret[3][1] # {}
    /\ ~IsSome(ret[1])
    /\ check_orphan_pages(index, config) # <<>>

----------------------------------------------------------------------------
(* A sitemap.xml that is there but gives no data.                          *)

\* sitemap.xml exists, its XML is malformed, and no URL was read from it
MalformedWithoutData ==
    /\ dist.sitemap.exists
    /\ \E k \in 1..Len(dist.sitemap.events) : dist.sitemap.events[k].t = "Err"
    /\ index.sitemap_urls = {}

\* C23: with sitemap.require on, a sitemap.xml that exists but is malformed
\* and provides no data is reported like a missing one, by a sitemap/missing
\* finding.
C23_MalformedReportedAsMissing ==
    (pc = "checked" /\ MalformedWithoutData /\ config.sitemap.require) =>
        \E i \in 1..Len(findings) : findings[i].rule_id = "sitemap/missing"

----------------------------------------------------------------------------
(* Pages for the canonical check: index.html with up to MaxCanonicals      *)
(* canonical links (absolute to a page, to nothing, to another origin;     *)
(* relative to a page, to nothing; blank) next to a/index.html, under the  *)
(* canonical toggles.                                                      *)

MaxCanonicals == 2

HostYBase == Https \o SchemeSep \o HostY

CanonicalHrefs ==
    {UrlRoot, UrlA, UrlAIndex, UrlGone, HostYBase \o <<"/", "a", "/">>,
     <<"/", "a", "/">>, <<"/", "g", "/">>, <<" ">>}

CanonicalDists ==
    {SitemapDist(c, <<>>, NoSitemap) :
        c \in UNION {[1..n -> CanonicalHrefs] : n \in 0..MaxCanonicals}}

CanonicalConfigs ==
    {[DefaultConfig EXCEPT !.url_normalization = n,
                           !.canonical = [require |-> TRUE, absolute |-> ab,
                                          same_origin |-> so, self_reference |-> sr]] :
        n \in {[trailing_slash |-> "Always", index_html |-> "Forbid"],
               [trailing_slash |-> "Never", index_html |-> "Allow"]},
        ab \in BOOLEAN, so \in BOOLEAN, sr \in BOOLEAN}

InitCanonical ==
    /\ RunStart
    /\ dist \in CanonicalDists
    /\ cli \in {[DefaultCli EXCEPT !.site = Some(BaseX), !.discovered = Some(c)] :
                  c \in CanonicalConfigs}

NextCanonical == LoadConfig \/ BuildIndex \/ CheckSeo

SpecCanonical == InitCanonical /\ [][NextCanonical]_vars

\* the path of a canonical href: of the URL when it is one, the href itself
\* when it is written from the root
HrefPath(href) == IF IsSome(UrlParse(href)) THEN UrlParse(href)[1].path ELSE href

TargetMissingOf(page) ==
    Cardinality({i \in 1..Len(findings) :
        /\ findings[i].rule_id = "canonical/target-missing"
        /\ findings[i].file = page.rel_path})

\* C24: a page whose first canonical link has a non-empty href gets a
\* canonical/target-missing finding exactly when the path of the href,
\* normalized, is no route of the index, for absolute and for relative hrefs.
C24_TargetMissingIffNoRoute ==
    pc = "checked" =>
        \A p \in 1..Len(index.pages) :
            LET page == index.pages[p]
                canonicals == page.html_content.canonicals
            IN  (Len(canonicals) > 0 /\ Trim(canonicals[1]) # <<>>) =>
                    (TargetMissingOf(page) = 1
                     <=> ~route_exists(index, normalize_path(HrefPath(canonicals[1]),
                                                             config.url_normalization)))

----------------------------------------------------------------------------
(* Pages for the per-anchor findings: index.html with at most MaxLinks     *)
(* anchors (with a query, a fragment, both, http://, mailto:; to a page,   *)
(* to nothing, to the page itself, to an asset) and a/index.html, ids on  *)
(* one page or the other, under the toggles of the link check.             *)

IdF == <<"f">>

AnchorHrefs ==
    << <<"/", "a", "/">>,
       <<"/", "a", "/", "?", "q">>,              \* a query, to a page
       <<"/", "z", "z", "?", "q">>,              \* a query, to nothing
       <<"?", "q">>,                             \* a query alone
       <<"/", "a", "/", "#", "f", "?", "q">>,    \* '?' inside the fragment
       HttpBaseX \o <<"/", "a", "/">>,           \* http://, to a page
       HttpBaseX \o <<"/", "z", "z">>,           \* http://, to nothing
       MailtoPrefix \o <<"x", "?", "q">>,        \* mailto: with a subject
       <<"#", "f">>,
       <<"#">>,
       <<"/", "a", "/", "#", "f">>,              \* a fragment of the other page
       <<"a", "/", "#", "f">>,
       <<"/", "a", "/", "#">>,
       <<"/", "#", "f">>,                        \* the page itself, written as a path
       <<"/", "z", "z", "#", "f">>,              \* a fragment of nothing
       Slash \o AssetFile \o <<"#", "f">> >>     \* a fragment of an asset

AnchorDists ==
    {[is_dir |-> TRUE,
      files |-> <<[rel |-> RootFile, readable |-> TRUE,
                   doc |-> [EmptyDoc EXCEPT
                               !.anchors = [i \in 1..Len(slots) |-> AnchorHrefs[slots[i]]],
                               !.ids = ids[1]]],
                  [rel |-> AFile, readable |-> TRUE, doc |-> [EmptyDoc EXCEPT !.ids = ids[2]]],
                  [rel |-> AssetFile, readable |-> TRUE, doc |-> EmptyDoc]>>,
      dirs |-> <<>>,
      finish |-> InOrder(3),
      sitemap |-> NoSitemap,
      extra |-> NoExtra] :
        slots \in Multisets(Len(AnchorHrefs), MaxLinks),
        ids \in {<<{IdF}, {}>>, <<{}, {IdF}>>}}

AnchorConfigs ==
    {[DefaultConfig EXCEPT !.links.check_fragments = cf,
                           !.links.forbid_query_params_internal = qm,
                           !.links.check_mixed_content = qm] :
        cf \in BOOLEAN, qm \in BOOLEAN}

InitAnchors ==
    /\ RunStart
    /\ dist \in AnchorDists
    /\ cli \in {[DefaultCli EXCEPT !.site = Some(HttpBaseX), !.discovered = Some(c)] :
                  c \in AnchorConfigs}

NextAnchors == LoadConfig \/ BuildIndex \/ CheckLinks

SpecAnchors == InitAnchors /\ [][NextAnchors]_vars

FindingsOf(rule, page, href) ==
    Cardinality({i \in 1..Len(findings) :
        /\ findings[i].rule_id = rule
        /\ findings[i].file = page.rel_path
        /\ findings[i].selector = AnchorSelector(href)})

\* a '?' with no '#' before it
QueryBeforeFragment(href) ==
    \E k \in 1..Len(href) : href[k] = "?" /\ \A j \in 1..(k - 1) : href[j] # "#"

TargetExists(page, href) ==
    LET resolved == resolve_href(href, page.route, index.base_url)
    IN  IsSome(resolved) /\ normalize_path(resolved[1], config.url_normalization) \in PageRoutes

\* the link check has run with the query and mixed-content toggles on
QueryAndMixedChecked ==
    /\ pc = "checked"
    /\ config.links.check_internal
    /\ config.links.forbid_query_params_internal
    /\ config.links.check_mixed_content

\* C25 as stated: every internal anchor that is not fragment-only and has a
\* '?' before any '#' gets one links/query-params finding, every internal
\* anchor starting with http:// one links/mixed-content finding, whether its
\* target exists or not, and a link with a query to a page no links/broken.
C25_QueryAndMixedOfInternal ==
    QueryAndMixedChecked =>
        \A i \in 1..Len(index.pages) :
            \A href \in {h \in Range(index.pages[i].html_content.anchors) :
                            is_internal(h, index.base_url) /\ ~StartsWith(h, Hash)} :
                LET page == index.pages[i]
                IN  /\ QueryBeforeFragment(href) =>
                          FindingsOf("links/query-params", page, href) = AnchorsWith(page, href)
                    /\ StartsWith(href, HttpPrefix) =>
                          FindingsOf("links/mixed-content", page, href) = AnchorsWith(page, href)
                    /\ (QueryBeforeFragment(href) /\ TargetExists(page, href)) =>
                          FindingsOf("links/broken", page, href) = 0

\* C25: the same of every internal anchor that is neither fragment-only nor
\* a mailto:, tel: or javascript: link.
C25_QueryAndMixedOfChecked ==
    QueryAndMixedChecked =>
        \A i \in 1..Len(index.pages) :
            \A href \in {h \in Range(index.pages[i].html_content.anchors) : CheckedAnchor(h)} :
                LET page == index.pages[i]
                IN  /\ QueryBeforeFragment(href) =>
                          FindingsOf("links/query-params", page, href) = AnchorsWith(page, href)
                    /\ StartsWith(href, HttpPrefix) =>
                          FindingsOf("links/mixed-content", page, href) = AnchorsWith(page, href)
                    /\ (QueryBeforeFragment(href) /\ TargetExists(page, href)) =>
                          FindingsOf("links/broken", page, href) = 0

\* a page with a query link to a page and an http:// link to nothing, each
\* with its finding
C25_Witness ==
    /\ QueryAndMixedChecked
    /\ \E i \in 1..Len(index.pages) :
          \E h1, h2 \in Range(index.pages[i].html_content.anchors) :
              /\ CheckedAnchor(h1) /\ QueryBeforeFragment(h1) /\ TargetExists(index.pages[i], h1)
              /\ FindingsOf("links/query-params", index.pages[i], h1) = 1
              /\ CheckedAnchor(h2) /\ StartsWith(h2, HttpPrefix) /\ ~TargetExists(index.pages[i], h2)
              /\ FindingsOf("links/mixed-content", index.pages[i], h2) = 1
              /\ FindingsOf("links/broken", index.pages[i], h2) = 1

\* the text after the first '#' of an href that has one
FragmentText(href) ==
    LET at == CHOOSE k \in 1..Len(href) : href[k] = "#" /\ \A j \in 1..(k - 1) : href[j] # "#"
    IN  SubSeq(href, at + 1, Len(href))

\* the page the href leads to
TargetPage(page, href) ==
    LET route == normalize_path(resolve_href(href, page.route, index.base_url)[1],
                                config.url_normalization)
    IN  CHOOSE t \in Range(index.pages) : t.route = route

----------------------------------------------------------------------------
(* Dot segments.                                                           *)

\* collapse_dots was applied to call.path
Collapsed == pc = "call" /\ call.fn = "collapse_dots" /\ Len(ret) = 1

CollapsedIs(p, result) == call.path = p => ret[1] = result

----------------------------------------------------------------------------
(* The error budget.                                                       *)

----------------------------------------------------------------------------
(* The file fallback of the broken-link check.                             *)

\* the resolved path is the build root: nothing but slashes
IsBuildRoot(resolved) == \A k \in 1..Len(resolved) : resolved[k] = "/"

\* the resolved path is a directory of the build output
IsDirectoryAt(resolved) ==
    \E i \in 1..Len(dist.files) :
        LET fc == Components(dist.files[i].rel)
            cs == Components(resolved)
        IN  Len(fc) > Len(cs) /\ SubSeq(fc, 1, Len(cs)) = cs

----------------------------------------------------------------------------
(* The per-page hreflang findings.                                         *)

RuleFindingsOf(rule, page) ==
    Cardinality({i \in 1..Len(findings) :
        findings[i].rule_id = rule /\ findings[i].file = page.rel_path})

\* the hreflang check has run with both per-page requirements on
HreflangPagesChecked ==
    /\ pc = "checked"
    /\ config.hreflang.check_hreflang
    /\ config.hreflang.require_x_default
    /\ config.hreflang.require_self_reference

\* C30: a page that declares no alternate pair gets neither
\* hreflang/no-x-default nor hreflang/no-self-reference; a page that
\* declares some gets hreflang/no-x-default once iff none has lang
\* x-default, and hreflang/no-self-reference once iff none has the page's
\* absolute URL as href, which is always so when no base URL is configured.
C30_HreflangOnlyForDeclaringPages ==
    HreflangPagesChecked =>
        \A i \in 1..Len(index.pages) :
            LET page == index.pages[i]
                pairs == page.html_content.hreflangs
                declares == Len(pairs) > 0
                x_default == \E k \in 1..Len(pairs) : pairs[k].lang = XDefault
                self == /\ IsSome(index.base_url)
                        /\ \E k \in 1..Len(pairs) : pairs[k].href = page.absolute_url[1]
            IN  /\ RuleFindingsOf("hreflang/no-x-default", page)
                      = (IF declares /\ ~x_default THEN 1 ELSE 0)
                /\ RuleFindingsOf("hreflang/no-self-reference", page)
                      = (IF declares /\ ~self THEN 1 ELSE 0)
                /\ (declares /\ ~IsSome(index.base_url)) =>
                      RuleFindingsOf("hreflang/no-self-reference", page) = 1

\* no base URL configured: a page without pairs and without findings next
\* to a page that declares pairs, none of them x-default, with both findings
C30_Witness ==
    /\ HreflangPagesChecked
    /\ \E i, j \in 1..Len(index.pages) :
          /\ Len(index.pages[i].html_content.hreflangs) = 0
          /\ RuleFindingsOf("hreflang/no-x-default", index.pages[i]) = 0
          /\ RuleFindingsOf("hreflang/no-self-reference", index.pages[i]) = 0
          /\ Len(index.pages[j].html_content.hreflangs) > 0
          /\ ~IsSome(index.base_url)
          /\ RuleFindingsOf("hreflang/no-x-default", index.pages[j]) = 1
          /\ RuleFindingsOf("hreflang/no-self-reference", index.pages[j]) = 1

====
